---- MODULE Spec2Model ----
(***************************************************************************)
(* The dual-agent relay drivers of llm-agent-poc as one state machine.     *)
(*                                                                         *)
(* Five drivers are modelled, selected by the variable `variant`:          *)
(*   "gradio_app"  src/gradio_app.py            auto_relay_conversation    *)
(*   "grapp_v2"    src/potgarbage/grapp_v2.py   auto_relay_conversation    *)
(*   "grapp_v3"    src/grapp_v3.py              auto_relay_conversation    *)
(*   "grapp_v4"    src/grapp_v4.py              relay_by_default           *)
(*   "grapp_v6"    src/grapp_v6.py              relay_by_default           *)
(*                                                                         *)
(* One session is one run of the driver.  The peers are the environment:   *)
(* each step of a stream they yield a frame, close the stream or fail.     *)
(*                                                                         *)
(* Python values.  A str is a sequence of tokens (non-empty chunks of      *)
(* characters; a token is either all whitespace or has no whitespace at    *)
(* its ends), so "" is << >>, concatenation is \o, and strip()/lower()     *)
(* are computed token-wise.  Optional[x] is << >> (None) or <<x>>.  A dict *)
(* is a record; `k in d` is k \in DOMAIN d; the empty dict is << >>.       *)
(***************************************************************************)
EXTENDS Naturals, Sequences, FiniteSets, TLC

-----------------------------------------------------------------------------
(* Bounds of the model *)

\* frames the peers may yield in one session (all hops together)
MaxFrames == 3

\* largest hop_limit a session is started with (the UI slider starts at 1)
MaxHopLimit == 3

-----------------------------------------------------------------------------
(* Python helpers *)

None == << >>
Some(x) == <<x>>

\* a str of one chunk; Str("") is the empty str
Str(s) == IF s = "" THEN << >> ELSE <<s>>

WhiteSpace == {" ", "\n", "\t"}

RECURSIVE LStrip(_)
LStrip(s) == IF s # << >> /\ Head(s) \in WhiteSpace THEN LStrip(Tail(s)) ELSE s

RECURSIVE RStrip(_)
RStrip(s) ==
    IF s # << >> /\ s[Len(s)] \in WhiteSpace
    THEN RStrip(SubSeq(s, 1, Len(s) - 1))
    ELSE s

\* str.strip()
Strip(s) == RStrip(LStrip(s))

\* lower-casing of one token (the tokens the model uses)
LowerTok(t) ==
    CASE t = "Never" -> "never"
      [] t = "NEVER" -> "never"
      [] t = "No" -> "no"
      [] t = "False" -> "false"
      [] t = "True" -> "true"
      [] t = "None" -> "none"
      [] t = "MR" -> "mr"
      [] t = "Off" -> "off"
      [] t = "Claims_Agent" -> "claims_agent"
      [] t = "CLM-1001" -> "clm-1001"
      [] t = "CLM-1002" -> "clm-1002"
      [] t = "CLM-9999" -> "clm-9999"
      [] OTHER -> t

\* str.lower()
Lower(s) == [i \in 1..Len(s) |-> LowerTok(s[i])]

\* "\n".join(xs) for a list of strs
RECURSIVE JoinLines(_)
JoinLines(xs) ==
    IF xs = << >> THEN << >>
    ELSE IF Len(xs) = 1 THEN xs[1]
    ELSE xs[1] \o <<"\n">> \o JoinLines(Tail(xs))

\* metadata values: a Python bool, a str, None (a missing key) or an int,
\* written with its decimal digits and whether it is non-zero
PyBool(b) == [t |-> "bool", b |-> b, s |-> << >>]
PyS(s) == [t |-> "str", b |-> FALSE, s |-> s]
PyNone == [t |-> "none", b |-> FALSE, s |-> << >>]
PyInt(digits, nonzero) == [t |-> "int", b |-> nonzero, s |-> digits]

\* str(v)
PyStrOf(v) ==
    CASE v.t = "bool" -> IF v.b THEN <<"True">> ELSE <<"False">>
      [] v.t = "str" -> v.s
      [] v.t = "int" -> v.s
      [] OTHER -> <<"None">>

\* bool(v)
PyTruth(v) ==
    CASE v.t = "bool" -> v.b
      [] v.t = "str" -> v.s # << >>
      [] v.t = "int" -> v.b
      [] OTHER -> FALSE

\* d.get(k) for a metadata dict, None when the key is missing
MetaGet(d, k) == IF k \in DOMAIN d THEN d[k] ELSE PyNone

-----------------------------------------------------------------------------
(* SSE frames of the requests-based drivers (gradio_app, grapp_v2,         *)
(* grapp_v3): JSON-RPC response objects, payload under "result".           *)

TERMINAL_STATES == {"completed", "canceled", "rejected", "failed"}

RELAY_BY_DEFAULT == TRUE

TextPart(s) == [kind |-> "text", text |-> Str(s)]
FilePart == [kind |-> "file"]
DataPart == [kind |-> "data"]

\* a JSON array where an object is expected
JsonList(xs) == [json_list |-> xs]

\* isinstance(x, dict)
IsDict(x) == "json_list" \notin DOMAIN x

\* an SSE event whose data lines are no JSON document
BadJson == [data |-> "{oops"]

\* the try around json.loads in sse_stream: the object the generator yields
\* for an SSE event, None when the data does not parse (the event is skipped)
sse_stream(event) == IF "data" \in DOMAIN event THEN None ELSE Some(event)

\* a Message result without metadata, and with a metadata dict
MsgPlain(parts) == [result |-> [role |-> "agent", parts |-> parts]]
MsgMeta(parts, meta) ==
    [result |-> [role |-> "agent", parts |-> parts, metadata |-> meta]]

\* a Message result that carries a contextId
MsgContext(parts, ctx) ==
    [result |-> [role |-> "agent", parts |-> parts, contextId |-> ctx]]

StatusFrame(state, final) ==
    [result |-> [kind |-> "task-status-update", taskId |-> "t1",
                 status |-> [state |-> state], final |-> final]]
StatusNoFinal(state) ==
    [result |-> [kind |-> "task-status-update", taskId |-> "t1",
                 status |-> [state |-> state]]]
TaskFrame == [result |-> [kind |-> "task", id |-> "t1", status |-> [state |-> "submitted"]]]
ArtifactFrame == [result |-> [kind |-> "task-artifact-update", taskId |-> "t1"]]
UnknownFrame == [result |-> [kind |-> "ping"]]
WrappedStatus(state, final) ==
    [result |-> [statusUpdate |-> [status |-> [state |-> state], final |-> final]]]

\* extract_text_parts: the text parts and the [file]/[data] placeholders,
\* empty ones dropped, joined by newlines
RECURSIVE PartTexts(_)
PartTexts(parts) ==
    IF parts = << >> THEN << >>
    ELSE LET p == Head(parts)
             s == IF p.kind = "text"
                     THEN (IF "text" \in DOMAIN p THEN p.text ELSE << >>)
                  ELSE IF p.kind \in {"file", "data"}
                     THEN <<"[" \o p.kind \o "]">>
                  ELSE << >>
         IN  (IF s # << >> THEN <<s>> ELSE << >>) \o PartTexts(Tail(parts))

extract_text_parts(message) ==
    JoinLines(PartTexts(IF "parts" \in DOMAIN message THEN message.parts ELSE << >>))

KindIs(result, k) == "kind" \in DOMAIN result /\ result.kind = k

\* mutant: the wrapped keys are looked up before the direct shapes
ParseWrappedFirst(result_obj) ==
    LET result == IF "result" \in DOMAIN result_obj THEN result_obj.result ELSE << >>
    IN  IF DOMAIN result = {} THEN <<"unknown", result_obj>>
        ELSE IF "message" \in DOMAIN result THEN <<"message", result.message>>
        ELSE IF "task" \in DOMAIN result THEN <<"task", result.task>>
        ELSE IF "statusUpdate" \in DOMAIN result THEN <<"statusUpdate", result.statusUpdate>>
        ELSE IF "artifactUpdate" \in DOMAIN result
            THEN <<"artifactUpdate", result.artifactUpdate>>
        ELSE IF "role" \in DOMAIN result /\ "parts" \in DOMAIN result
            THEN <<"message", result>>
        ELSE IF KindIs(result, "task") /\ "status" \in DOMAIN result /\ "id" \in DOMAIN result
            THEN <<"task", result>>
        ELSE IF KindIs(result, "task-status-update") /\ "status" \in DOMAIN result
                /\ "taskId" \in DOMAIN result
            THEN <<"statusUpdate", result>>
        ELSE IF KindIs(result, "task-artifact-update") /\ "taskId" \in DOMAIN result
            THEN <<"artifactUpdate", result>>
        ELSE <<"unknown", result>>

\* parse_stream_result: <<typ, payload>>
parse_stream_result(result_obj) ==
    LET result == IF "result" \in DOMAIN result_obj THEN result_obj.result ELSE << >>
    IN  IF DOMAIN result = {} THEN <<"unknown", result_obj>>
        ELSE IF "role" \in DOMAIN result /\ "parts" \in DOMAIN result
            THEN <<"message", result>>
        ELSE IF KindIs(result, "task") /\ "status" \in DOMAIN result /\ "id" \in DOMAIN result
            THEN <<"task", result>>
        ELSE IF KindIs(result, "task-status-update") /\ "status" \in DOMAIN result
                /\ "taskId" \in DOMAIN result
            THEN <<"statusUpdate", result>>
        ELSE IF KindIs(result, "task-artifact-update") /\ "taskId" \in DOMAIN result
            THEN <<"artifactUpdate", result>>
        ELSE IF "message" \in DOMAIN result THEN <<"message", result.message>>
        ELSE IF "task" \in DOMAIN result THEN <<"task", result.task>>
        ELSE IF "statusUpdate" \in DOMAIN result THEN <<"statusUpdate", result.statusUpdate>>
        ELSE IF "artifactUpdate" \in DOMAIN result
            THEN <<"artifactUpdate", result.artifactUpdate>>
        ELSE <<"unknown", result>>

\* (payload.get("status") or {}).get("state", "")
StatusState(payload) ==
    IF "status" \in DOMAIN payload /\ "state" \in DOMAIN payload.status
    THEN payload.status.state ELSE ""

\* (payload.get("status") or {}).get("message", "")
StatusMessage(payload) ==
    IF "status" \in DOMAIN payload /\ "message" \in DOMAIN payload.status
    THEN payload.status.message ELSE << >>

\* bool(payload.get("final"))
IsFinal(payload) == "final" \in DOMAIN payload /\ payload.final

\* the metadata dict of a Message payload ({} when missing or no dict)
MetaOf(payload) ==
    IF "metadata" \in DOMAIN payload /\ IsDict(payload.metadata)
    THEN payload.metadata ELSE << >>

\* mutant: the opt-out test compares case-sensitively
RelayDisabledCaseSensitive(meta) ==
    \/ PyStrOf(MetaGet(meta, "relay")) \in {<<"never">>, <<"no">>, <<"false">>}
    \/ PyTruth(MetaGet(meta, "doNotRelay"))

\* the opt-out test of grapp_v2 / grapp_v3
RelayDisabled(meta) ==
    \/ Lower(PyStrOf(MetaGet(meta, "relay"))) \in {<<"never">>, <<"no">>, <<"false">>}
    \/ PyTruth(MetaGet(meta, "doNotRelay"))

\* meta.get("delegateTo") in {"A", "B"}
DelegateTo(meta) ==
    IF "delegateTo" \in DOMAIN meta /\ meta.delegateTo \in {"A", "B"}
    THEN Some(meta.delegateTo) ELSE None

-----------------------------------------------------------------------------
(* Stream items of the SDK-based drivers (grapp_v4, grapp_v6): a Message,  *)
(* or a tuple (Task, event) whose event is None, a TaskStatusUpdateEvent   *)
(* or a TaskArtifactUpdateEvent.                                           *)

MAX_HOPS == 12

SdkMsg(text) == [type |-> "Message", text |-> text]
SdkMsgMeta(text, meta) == [type |-> "Message", text |-> text, metadata |-> meta]
SdkTask == [type |-> "tuple", task |-> "t1", ev |-> [type |-> "None"]]
SdkStatus(state, final) ==
    [type |-> "tuple", task |-> "t1",
     ev |-> [type |-> "TaskStatusUpdateEvent", state |-> state, final |-> final]]
SdkArtifact(preview) ==
    [type |-> "tuple", task |-> "t1",
     ev |-> [type |-> "TaskArtifactUpdateEvent", preview |-> preview]]
SdkOther == [type |-> "other"]

\* get_message_text(item) or ""
get_message_text(item) == IF "text" \in DOMAIN item THEN item.text ELSE << >>

\* getattr(item, "metadata", None) or {}
SdkMeta(item) == IF "metadata" \in DOMAIN item THEN item.metadata ELSE << >>

\* _truthy of grapp_v6
_truthy(v, default) ==
    CASE v.t = "bool" -> v.b
      [] v.t = "str" ->
            Lower(Strip(v.s)) \notin
                {<< >>, <<"0">>, <<"false">>, <<"no">>, <<"off">>, <<"never">>}
      [] OTHER -> default

\* meta.get("target_agent") or meta.get("delegateTo"): a str, << >> for None
TargetHint(meta) ==
    IF "target_agent" \in DOMAIN meta /\ meta.target_agent # << >> THEN meta.target_agent
    ELSE IF "delegateTo" \in DOMAIN meta THEN meta.delegateTo
    ELSE << >>

\* route_hint of stream_once (grapp_v6)
RouteHint(meta) ==
    [relay |-> PyBool(_truthy(MetaGet(meta, "relay"), TRUE)),
     audience |-> IF "audience" \in DOMAIN meta THEN meta.audience ELSE "",
     target_agent |-> TargetHint(meta)]

\* NAME_MAP.get(tgt): the local key, None when tgt is no known name
NAME_MAP(tgt) ==
    CASE tgt = <<"claims_agent">> -> Some("claims")
      [] tgt = <<"mr_agent">> -> Some("mr")
      [] tgt = <<"claims">> -> Some("claims")
      [] tgt = <<"mr">> -> Some("mr")
      [] OTHER -> None

\* is_final and str(state).lower() in {completed, failed, taskstate.*}
SdkTerminal(ev) ==
    /\ ev.final
    /\ Lower(ev.state) \in {<<"completed">>, <<"taskstate.completed">>,
                            <<"failed">>, <<"taskstate.failed">>}

\* isinstance(meta, dict) and str(meta.get("relay", "")).lower() == "never"
\* on the raw object of the hop's last event (grapp_v4)
V4RelayNever(collected) ==
    /\ collected # << >>
    /\ LET last == collected[Len(collected)].raw
       IN  /\ "metadata" \in DOMAIN last
           /\ "relay" \in DOMAIN last.metadata
           /\ Lower(PyStrOf(last.metadata.relay)) = <<"never">>

-----------------------------------------------------------------------------
(* The session *)

VARIABLES
    variant,       \* which driver runs
    peer,          \* what the peers may send: "policy", "lifecycle" or "chatty"
    hop_limit,     \* hop_limit (MAX_HOPS in grapp_v4 / grapp_v6)
    initiator,     \* initiator_label / thread.initiator
    pc,            \* "loop": at the loop head; "stream": awaiting the next frame;
                   \* "done": returned; "raised": an exception reached the caller
    hops,          \* hops; in grapp_v4 / grapp_v6 the values drawn from range(MAX_HOPS)
    current,       \* label of the endpoint the next call goes to
    other,         \* label of its peer
    next_message,  \* Optional inbound message of the next call
    events,        \* events / thread.relay_events
    loc,           \* the locals of the current hop
    calls,         \* history: the streaming calls opened, in order
    yielded,       \* history: the frames the streams yielded, in order
    raisedAt,      \* history: the hop whose stream raised, 0 when none did
    dropped,       \* history: the hops of the SSE events sse_stream skipped
    conf,          \* context_id and last_task_id of the two endpoint configurations
    s2,            \* a second session of the same driver, run concurrently
    viewer,        \* the requests of a viewer and the one it shows
    cls,           \* a frame under classification and what was computed from it
    dcall,         \* a streaming call an agent or sse_stream makes
    reconn,        \* the agent handles of the dashboard and a reconnect under way
    store,         \* the sessions state of grapp_v3 and the on_send calls in flight
    claimsrun,     \* a request of the claims agent and its Transcript
    sse            \* the lines of an SSE response and what sse_stream made of them

vars == <<variant, peer, hop_limit, initiator, pc, hops, current, other,
          next_message, events, loc, calls, yielded, raisedAt, dropped, conf,
          s2, viewer, cls, dcall, reconn, store, claimsrun, sse>>

\* what the steps of the session leave alone
aux == <<s2, viewer, cls, dcall, reconn, store, claimsrun, sse>>

HttpVariants == {"gradio_app", "grapp_v2", "grapp_v3"}
SdkVariants == {"grapp_v4", "grapp_v6"}
Variants == HttpVariants \cup SdkVariants

Labels(v) == IF v \in HttpVariants THEN {"A", "B"} ELSE {"claims", "mr"}

\* mutant: the peer is the speaker itself
OtherOfSame(v, l) == l

\* "B" if current == "A" else "A"; next(k for k in app.agents if k != key)
OtherOf(v, l) == CHOOSE k \in Labels(v) : k # l

\* {"role": "user", "parts": [{"kind": "text", "text": text}]}
UserMessage(text) == [role |-> "user", parts |-> <<[kind |-> "text", text |-> text]>>]

\* one transcript entry; hop and at are history: the call that produced it and
\* the position of its frame among the frames yielded so far (an error entry
\* has the position after the last frame)
Entry(origin, to, kind, role, text, raw, hop) ==
    [origin |-> origin, to_agent |-> to, kind |-> kind, role |-> role,
     text |-> text, raw |-> raw, relayed |-> FALSE, hop |-> hop,
     at |-> Len(yielded) + 1, session |-> 1]

\* mutant: a reply without text takes the text of the entry recorded last
TextOrCarried(text) ==
    IF text # << >> THEN text
    ELSE IF events # << >> THEN events[Len(events)].text
    ELSE <<"[non-text parts]">>

\* text or "[non-text parts]"
TextOr(text) == IF text # << >> THEN text ELSE <<"[non-text parts]">>

\* AgentConfig.context_id and AgentConfig.last_task_id of both endpoints,
\* None by default
InitConf(v) == [l \in Labels(v) |-> [context_id |-> None, last_task_id |-> None]]

\* the configurations after the for loop body has run on a frame:
\* gradio_app and grapp_v2 keep the contextId of a Message and the id of a
\* Task in the configuration of the sender
ConfAfter(v, frame, cf, label) ==
    LET tp == parse_stream_result(frame)
        typ == tp[1]
        payload == tp[2]
    IN  IF v \notin {"gradio_app", "grapp_v2"} THEN cf
        ELSE IF typ = "message" /\ "contextId" \in DOMAIN payload /\ payload.contextId # ""
            THEN [cf EXCEPT ![label].context_id = Some(payload.contextId)]
        ELSE IF typ = "task"
            THEN [cf EXCEPT ![label].last_task_id =
                      IF "id" \in DOMAIN payload THEN Some(payload.id) ELSE None]
        ELSE cf

\* mutant: grapp_v2 / grapp_v3 keep the locals of the hop before
FreshLocalsKept(v, l) ==
    CASE v = "gradio_app" -> l
      [] v = "grapp_v2" ->
            IF l # << >> THEN l
            ELSE [relay_text |-> None, relay_allowed |-> RELAY_BY_DEFAULT,
                  explicit_target |-> None, stream_reached_terminal |-> FALSE]
      [] v = "grapp_v3" ->
            IF l # << >> THEN l
            ELSE [relay_text |-> None, relay_allowed |-> RELAY_BY_DEFAULT,
                  explicit_target |-> None, stream_reached_terminal |-> FALSE,
                  last_msg_event_idx |-> None]
      [] v = "grapp_v4" -> [agent_reply |-> << >>, collected |-> << >>, terminal |-> FALSE]
      [] OTHER ->
            [reply |-> << >>, collected |-> << >>, terminal |-> FALSE, route_hint |-> << >>]

\* the locals a hop starts with
FreshLocals(v, l) ==
    CASE v = "gradio_app" -> l
      [] v = "grapp_v2" ->
            [relay_text |-> None, relay_allowed |-> RELAY_BY_DEFAULT,
             explicit_target |-> None, stream_reached_terminal |-> FALSE]
      [] v = "grapp_v3" ->
            [relay_text |-> None, relay_allowed |-> RELAY_BY_DEFAULT,
             explicit_target |-> None, stream_reached_terminal |-> FALSE,
             last_msg_event_idx |-> None]
      [] v = "grapp_v4" -> [agent_reply |-> << >>, collected |-> << >>, terminal |-> FALSE]
      [] OTHER ->
            [reply |-> << >>, collected |-> << >>, terminal |-> FALSE, route_hint |-> << >>]

\* the locals before the first hop
InitLocals(v) ==
    IF v = "gradio_app" THEN [last_text_from_sender |-> None]
    ELSE FreshLocals(v, << >>)

\* mutant: the bound test is off by one
LoopCondOffByOne ==
    CASE variant = "gradio_app" -> hops <= hop_limit
      [] variant \in {"grapp_v2", "grapp_v3"} -> hops <= hop_limit /\ next_message # None
      [] OTHER -> hops <= MAX_HOPS

\* mutant: the loop goes on when there is nothing to relay
LoopCondNoMessageTest ==
    CASE variant \in HttpVariants -> hops < hop_limit
      [] OTHER -> hops < MAX_HOPS

\* mutant: the loop runs once more than the bound allows
LoopCondOneMore ==
    CASE variant = "gradio_app" -> hops < hop_limit + 1
      [] variant \in {"grapp_v2", "grapp_v3"} -> hops < hop_limit + 1 /\ next_message # None
      [] OTHER -> hops < MAX_HOPS + 1

\* the condition of the driver loop
LoopCond ==
    CASE variant = "gradio_app" -> hops < hop_limit
      [] variant \in {"grapp_v2", "grapp_v3"} -> hops < hop_limit /\ next_message # None
      [] OTHER -> hops < MAX_HOPS

-----------------------------------------------------------------------------
(* One frame of a hop: gradio_app, grapp_v2, grapp_v3 *)

\* payload.get("role")
RoleOf(payload) == IF "role" \in DOMAIN payload THEN Some(payload.role) ELSE None

\* f"task {payload.get('id')} -> {state}"
TaskText(payload, state) ==
    <<"task ">> \o (IF "id" \in DOMAIN payload THEN Str(payload.id) ELSE <<"None">>)
        \o <<" -> ">> \o state

\* payload.get("status", {}).get("state") inside an f-string (gradio_app)
StateOrNone(payload) ==
    IF "status" \in DOMAIN payload /\ "state" \in DOMAIN payload.status
    THEN Str(payload.status.state) ELSE <<"None">>

\* f"artifact update for task {payload.get('taskId')}"
ArtifactText(payload) ==
    <<"artifact update for task ">>
        \o (IF "taskId" \in DOMAIN payload THEN Str(payload.taskId) ELSE <<"None">>)

\* mutant: a frame of unknown type wipes the text kept for the relay
IgnoredButForgets(evs, l) ==
    [events |-> evs,
     loc |-> IF "relay_text" \in DOMAIN l THEN [l EXCEPT !.relay_text = None]
             ELSE [l EXCEPT !.last_text_from_sender = None]]

\* no branch of the if / elif chain matches: unknown types are ignored
Ignored(evs, l) == [events |-> evs, loc |-> l]

\* the body of the for loop of gradio_app: [events, loc] after one frame
V1Frame(frame, evs, l, label, h) ==
    LET tp == parse_stream_result(frame)
        typ == tp[1]
        payload == tp[2]
    IN  CASE typ = "message" ->
                LET text == Strip(extract_text_parts(payload))
                IN  [events |-> Append(evs, Entry(label, "", "message", RoleOf(payload),
                                                  TextOr(text), frame, h)),
                     loc |-> [l EXCEPT !.last_text_from_sender = Some(text)]]
          [] typ = "task" ->
                [events |-> Append(evs, Entry(label, "", "status", None,
                                              TaskText(payload, StateOrNone(payload)),
                                              frame, h)),
                 loc |-> l]
          [] typ = "statusUpdate" ->
                LET msg_txt == StatusMessage(payload)
                    text == Strip(StateOrNone(payload) \o <<" ">>
                                  \o (IF msg_txt # << >> THEN <<"-", " ">> \o msg_txt ELSE << >>))
                IN  [events |-> Append(evs, Entry(label, "", "status", None, text, frame, h)),
                     loc |-> l]
          [] typ = "artifactUpdate" ->
                [events |-> Append(evs, Entry(label, "", "artifact", None,
                                              ArtifactText(payload), frame, h)),
                 loc |-> l]
          [] OTHER -> Ignored(evs, l)

\* mutant: every Message overwrites the decision of the hop
V23PolicyLastWins(v, l, text, meta, idx) ==
    LET l1 == IF v = "grapp_v3" THEN [l EXCEPT !.last_msg_event_idx = Some(idx)] ELSE l
    IN  [l1 EXCEPT !.relay_allowed = ~RelayDisabled(meta),
                   !.explicit_target = DelegateTo(meta),
                   !.relay_text = IF text # << >> THEN Some(text) ELSE None]

\* the locals of grapp_v2 / grapp_v3 after a Message with this text and metadata
V23Policy(v, l, text, meta, idx) ==
    LET l1 == IF v = "grapp_v3" THEN [l EXCEPT !.last_msg_event_idx = Some(idx)] ELSE l
        l2 == IF RelayDisabled(meta) THEN [l1 EXCEPT !.relay_allowed = FALSE] ELSE l1
        l3 == IF DelegateTo(meta) # None
              THEN [l2 EXCEPT !.explicit_target = DelegateTo(meta)] ELSE l2
    IN  IF text # << >> THEN [l3 EXCEPT !.relay_text = Some(text)] ELSE l3

\* if is_final or status in TERMINAL_STATES: stream_reached_terminal = True
V23Status(l, payload) ==
    IF IsFinal(payload) \/ StatusState(payload) \in TERMINAL_STATES
    THEN [l EXCEPT !.stream_reached_terminal = TRUE] ELSE l

\* the body of the for loop of grapp_v2 / grapp_v3: [events, loc] after one frame
V23Frame(v, frame, evs, l, label, h) ==
    LET tp == parse_stream_result(frame)
        typ == tp[1]
        payload == tp[2]
    IN  CASE typ = "message" ->
                LET text == Strip(extract_text_parts(payload))
                IN  [events |-> Append(evs, Entry(label, "", "message", RoleOf(payload),
                                                  TextOr(text), frame, h)),
                     loc |-> V23Policy(v, l, text, MetaOf(payload), Len(evs) + 1)]
          [] typ = "task" ->
                [events |-> Append(evs, Entry(label, "", "status", None,
                                              TaskText(payload, Str(StatusState(payload))),
                                              frame, h)),
                 loc |-> l]
          [] typ = "statusUpdate" ->
                LET msg_txt == StatusMessage(payload)
                    text == Str(StatusState(payload))
                            \o (IF msg_txt # << >> THEN <<" - ">> \o msg_txt ELSE << >>)
                IN  [events |-> Append(evs, Entry(label, "", "status", None, text, frame, h)),
                     loc |-> V23Status(l, payload)]
          [] typ = "artifactUpdate" ->
                [events |-> Append(evs, Entry(label, "", "artifact", None,
                                              ArtifactText(payload), frame, h)),
                 loc |-> l]
          [] OTHER -> Ignored(evs, l)

\* record("system", "error", None, f"{label} stream error: {e}", {"exception": str(e)})
ErrorEntry(label, h) ==
    Entry("system", "", "error", None, <<label, " stream error: ", "boom">>,
          [exception |-> "boom"], h)

\* mutant: the except branch keeps the relay decision of the hop
V23ErrorLocalsKept(l) == [l EXCEPT !.stream_reached_terminal = TRUE]

\* the except branch of grapp_v2 / grapp_v3
V23ErrorLocals(l) ==
    [l EXCEPT !.relay_text = None, !.relay_allowed = FALSE,
              !.stream_reached_terminal = TRUE]

\* mutant: an empty str counts as true
TruthyNotNone(opt) == opt # None

\* bool(x) of an Optional[str]
Truthy(opt) == opt # None /\ opt[1] # << >>

\* the relay condition after a hop of grapp_v2 / grapp_v3
V23Relays(v, l) ==
    /\ l.relay_allowed
    /\ Truthy(l.relay_text)
    /\ (v = "grapp_v3" => l.last_msg_event_idx # None)

\* mutant: the explicit target is ignored
NextTargetPingPong(l, oth) == oth

\* the target of the next hop in grapp_v2 / grapp_v3
NextTarget(l, oth) ==
    IF l.explicit_target # None /\ l.explicit_target[1] \in {"A", "B"}
    THEN l.explicit_target[1] ELSE oth

\* mutant: no entry is marked relayed
MarkRelayedNever(v, evs, l) == evs

\* mutant: marking an entry relayed also fills in its destination
MarkRelayedAndAddressed(v, evs, l) ==
    IF v = "grapp_v3"
    THEN [evs EXCEPT ![l.last_msg_event_idx[1]].relayed = TRUE,
                     ![l.last_msg_event_idx[1]].to_agent = "next"]
    ELSE evs

\* events[last_msg_event_idx]["relayed"] = True (grapp_v3 only)
MarkRelayed(v, evs, l) ==
    IF v = "grapp_v3"
    THEN [evs EXCEPT ![l.last_msg_event_idx[1]].relayed = TRUE]
    ELSE evs

\* what follows the stream of a hop in gradio_app, grapp_v2, grapp_v3,
\* from the events and locals the stream left
EndHopHttp(evs, l) ==
    /\ hops' = hops + 1
    /\ IF variant = "gradio_app"
       THEN IF Truthy(l.last_text_from_sender)
            THEN /\ next_message' = Some(UserMessage(l.last_text_from_sender[1]))
                 /\ current' = other
                 /\ other' = current
                 /\ loc' = [l EXCEPT !.last_text_from_sender = None]
                 /\ events' = evs
                 /\ pc' = "loop"
            ELSE /\ UNCHANGED <<next_message, current, other>>
                 /\ loc' = l
                 /\ events' = evs
                 /\ pc' = "done"
       ELSE IF V23Relays(variant, l)
            THEN /\ events' = MarkRelayed(variant, evs, l)
                 /\ next_message' = Some(UserMessage(l.relay_text[1]))
                 /\ current' = NextTarget(l, other)
                 /\ other' = OtherOf(variant, NextTarget(l, other))
                 /\ loc' = l
                 /\ pc' = "loop"
            ELSE /\ events' = evs
                 /\ next_message' = None
                 /\ UNCHANGED <<current, other>>
                 /\ loc' = l
                 /\ pc' = "loop"

-----------------------------------------------------------------------------
(* One item of a hop: grapp_v4 (stream_once_and_collect), grapp_v6         *)
(* (stream_once).  RelayEvent is modelled by Entry: origin is from_agent;  *)
(* idx and meta, which nothing reads, are left out.                        *)

\* f"{state}: {msgtxt}"
SdkStatusText(ev) ==
    ev.state \o <<": ">> \o (IF "message" \in DOMAIN ev THEN ev.message ELSE << >>)

\* the entry appended for a tuple item, << >> when none is
SdkTupleEntry(v, item, speaker, to, h) ==
    LET ev == item.ev
    IN  CASE ev.type = "None" ->
                <<Entry(speaker, to, "task", None,
                        <<"task ", item.task, " updated">>, [task |-> item.task], h)>>
          [] ev.type = "TaskStatusUpdateEvent" ->
                <<Entry(speaker, to, "status", None, SdkStatusText(ev), ev, h)>>
          [] ev.type = "TaskArtifactUpdateEvent" ->
                <<Entry(speaker, to, "artifact", None, ev.preview, ev, h)>>
          [] OTHER -> << >>

\* the body of the async for loop: [loc, brk] after one item; brk: the loop breaks
SdkFrame(v, item, l, speaker, next_peer_key, h) ==
    LET to == IF v = "grapp_v6" THEN next_peer_key ELSE ""
    IN  CASE item.type = "Message" ->
                LET text == get_message_text(item)
                    e == Entry(speaker, to, "message", None, text, item, h)
                IN  [loc |-> IF v = "grapp_v6"
                             THEN [l EXCEPT !.reply = text,
                                            !.route_hint = RouteHint(SdkMeta(item)),
                                            !.collected = Append(l.collected, e)]
                             ELSE [l EXCEPT !.agent_reply = text,
                                            !.collected = Append(l.collected, e)],
                     brk |-> TRUE]
          [] item.type = "tuple" ->
                LET isTerminal == item.ev.type = "TaskStatusUpdateEvent"
                                  /\ SdkTerminal(item.ev)
                    l1 == [l EXCEPT !.collected =
                                l.collected \o SdkTupleEntry(v, item, speaker, to, h)]
                IN  [loc |-> IF isTerminal THEN [l1 EXCEPT !.terminal = TRUE] ELSE l1,
                     brk |-> isTerminal]
          [] OTHER -> [loc |-> l, brk |-> FALSE]

\* for ev in events: ev.to_agent = next_peer.key
Tagged(collected, key) == [i \in 1..Len(collected) |-> [collected[i] EXCEPT !.to_agent = key]]

\* mutant: the baton handed on is the prompt again, not the reply
ReplyOfPrompt(v, l) ==
    IF (IF v = "grapp_v6" THEN l.reply ELSE l.agent_reply) # << >>
    THEN <<"prompt">> ELSE << >>

\* the reply stream_once returned
ReplyOf(v, l) == IF v = "grapp_v6" THEN l.reply ELSE l.agent_reply

\* mutant: a Message for the user is forwarded only when relay is set
V6RelayOkForPeersOnly(hint) ==
    IF DOMAIN hint = {} THEN TRUE
    ELSE hint.audience # "user" /\ _truthy(hint.relay, TRUE)

\* relay_ok of grapp_v6: hint.relay read through _truthy, whose default is
\* False for audience == "user" and True otherwise
V6RelayOk(hint) ==
    IF DOMAIN hint = {} THEN TRUE
    ELSE IF hint.audience = "user" THEN _truthy(hint.relay, FALSE)
    ELSE _truthy(hint.relay, TRUE)

\* the loop breaks after this hop
SdkBreaks(v, l) ==
    \/ l.terminal
    \/ (v = "grapp_v6" /\ ~V6RelayOk(l.route_hint))
    \/ (v = "grapp_v4" /\ V4RelayNever(l.collected))
    \/ ReplyOf(v, l) = << >>

\* mutant: the speaker keeps the baton
SdkNextKeyStays(v, l, cur, nxt) == cur

\* the key of the next speaker
SdkNextKey(v, l, cur, nxt) ==
    IF v = "grapp_v6"
    THEN LET tgt == Lower(Strip(l.route_hint.target_agent))
             next_key == IF tgt # << >> THEN NAME_MAP(tgt) ELSE None
         IN  IF next_key # None /\ next_key[1] \in Labels(v) THEN next_key[1] ELSE nxt
    ELSE nxt

\* mutant: the entries of a hop are put in front of the transcript
ExtendAtFront(evs, collected) == collected \o evs

\* thread.relay_events.extend(events)
Extend(evs, collected) == evs \o collected

\* what follows stream_once in relay_by_default, from the locals it left
EndHopSdk(l) ==
    /\ events' = Extend(events, Tagged(l.collected, other))
    /\ loc' = l
    /\ hops' = hops
    /\ IF SdkBreaks(variant, l)
       THEN /\ pc' = "done"
            /\ UNCHANGED <<next_message, current, other>>
       ELSE /\ pc' = "loop"
            /\ next_message' = Some(ReplyOf(variant, l))
            /\ current' = SdkNextKey(variant, l, current, other)
            /\ other' = IF SdkNextKey(variant, l, current, other) = other
                        THEN current
                        ELSE OtherOf(variant, SdkNextKey(variant, l, current, other))

-----------------------------------------------------------------------------
(* What the peers may send *)

\* Messages that differ in text and metadata (requests-based drivers)
HttpPolicyFrames ==
    << MsgPlain(<<TextPart("hi")>>),
       MsgMeta(<<TextPart("yo")>>, [relay |-> PyS(<<"Never">>)]),
       MsgMeta(<<TextPart("hi")>>, [delegateTo |-> "A"]),
       MsgMeta(<<TextPart("yo")>>, [delegateTo |-> "B"]),
       MsgMeta(<<TextPart("hi")>>, [relay |-> PyBool(FALSE), delegateTo |-> "A"]),
       MsgMeta(<<TextPart("yo")>>, [doNotRelay |-> PyBool(TRUE)]),
       MsgPlain(<<TextPart(" ")>>) >>

\* gradio_app reads no metadata: texts only
HttpTextFrames ==
    << MsgPlain(<<TextPart("hi")>>),
       MsgMeta(<<TextPart("yo")>>, [relay |-> PyS(<<"Never">>)]),
       MsgPlain(<<TextPart(" ")>>) >>

\* a Message among task, status, artifact and unknown frames
HttpLifecycleFrames ==
    << MsgPlain(<<TextPart("hi")>>),
       StatusFrame("working", FALSE),
       StatusFrame("working", TRUE),
       StatusNoFinal("completed"),
       TaskFrame,
       ArtifactFrame,
       UnknownFrame >>

SdkPolicyItems ==
    << SdkMsg(<<"hi">>),
       SdkMsgMeta(<<"yo">>, [relay |-> PyS(<<"never">>)]),
       SdkMsgMeta(<<"hi">>, [target_agent |-> <<"Claims_Agent">>]),
       SdkMsgMeta(<<"yo">>, [delegateTo |-> <<" ", "MR">>]),
       SdkMsg(<< >>) >>

SdkLifecycleItems ==
    << SdkMsg(<<"hi">>),
       SdkTask,
       SdkStatus(<<"working">>, FALSE),
       SdkStatus(<<"completed">>, TRUE),
       SdkStatus(<<"canceled">>, TRUE),
       SdkStatus(<<"completed">>, FALSE),
       SdkArtifact(<<"doc">>),
       SdkOther >>

\* a chatty peer answers every call with one plain Message
ChattyFrames == << MsgPlain(<<TextPart("hi")>>) >>
ChattyItems == << SdkMsg(<<"hi">>) >>

\* Messages with file and data parts or with an empty text part that names
\* a target, and an SSE event that is no JSON
HttpPartsFrames ==
    << MsgPlain(<<TextPart("hi"), FilePart>>),
       MsgPlain(<<FilePart>>),
       MsgPlain(<<DataPart, TextPart("yo")>>),
       MsgMeta(<<TextPart("")>>, [relay |-> PyBool(TRUE), delegateTo |-> "B"]),
       MsgContext(<<TextPart("hi")>>, "c1"),
       BadJson >>

\* get_message_text of the SDK joins the text parts only
SdkPartsItems ==
    << SdkMsg(<<"hi">>),
       SdkMsg(<< >>),
       SdkMsgMeta(<< >>, [relay |-> PyBool(TRUE), target_agent |-> <<"mr">>]),
       SdkMsgMeta(<<"hi">>, [audience |-> "user"]),
       SdkMsgMeta(<<"yo">>, [audience |-> "user", relay |-> PyBool(FALSE)]),
       SdkMsgMeta(<<"hi">>, [audience |-> "agent"]),
       SdkMsg(<<" ", "hi">>) >>

\* Messages whose metadata is no dict or whose flags have unexpected values
HttpMalformedFrames ==
    << MsgMeta(<<TextPart("hi")>>, JsonList(<<"never">>)),
       MsgMeta(<<TextPart("yo")>>, [relay |-> PyInt(<<"0">>, FALSE)]),
       MsgMeta(<<TextPart("hi")>>, [relay |-> PyS(<<"maybe">>)]),
       MsgMeta(<<TextPart("yo")>>, [doNotRelay |-> PyS(<<"false">>)]),
       MsgMeta(<<TextPart("hi")>>, [doNotRelay |-> PyInt(<<"0">>, FALSE)]) >>

SdkMalformedItems ==
    << SdkMsgMeta(<<"hi">>, [relay |-> PyInt(<<"0">>, FALSE)]),
       SdkMsgMeta(<<"yo">>, [relay |-> PyS(<<"maybe">>)]),
       SdkMsgMeta(<<"hi">>, [relay |-> PyS(<<" ", "Off">>)]),
       SdkMsgMeta(<<"yo">>, [doNotRelay |-> PyS(<<"false">>)]) >>

Peers == {"policy", "lifecycle", "chatty", "parts", "malformed"}

Alphabet(v, p) ==
    IF v \in HttpVariants
    THEN CASE p = "chatty" -> ChattyFrames
           [] p = "lifecycle" -> HttpLifecycleFrames
           [] p = "parts" -> HttpPartsFrames
           [] p = "malformed" -> HttpMalformedFrames
           [] OTHER -> IF v = "gradio_app" THEN HttpTextFrames ELSE HttpPolicyFrames
    ELSE CASE p = "chatty" -> ChattyItems
           [] p = "lifecycle" -> SdkLifecycleItems
           [] p = "parts" -> SdkPartsItems
           [] p = "malformed" -> SdkMalformedItems
           [] OTHER -> SdkPolicyItems

\* frames the peers may yield in this session
FrameBudget(p, limit) == IF p = "chatty" THEN limit + 1 ELSE MaxFrames

-----------------------------------------------------------------------------
(* The state machine *)

\* no second session, no viewer, no classification, no delegated call
S2Idle == [pc |-> "idle"]
ViewerIdle == [pc |-> "idle"]
ClsIdle == [pc |-> "idle"]
DcallIdle == [pc |-> "idle"]
ReconnIdle == [pc |-> "idle"]
StoreIdle == [pc |-> "idle"]
ClaimsrunIdle == [pc |-> "idle"]
SseIdle == [pc |-> "idle"]

\* no reconnect, no overlapping on_send, no claims request, no SSE response
RestIdle ==
    /\ reconn = ReconnIdle
    /\ store = StoreIdle
    /\ claimsrun = ClaimsrunIdle
    /\ sse = SseIdle

\* the variables of the session
sessionVars == <<variant, peer, hop_limit, initiator, pc, hops, current, other,
                 next_message, events, loc, calls, yielded, raisedAt, dropped, conf>>

\* the locals of the driver before its loop, and the empty histories
InitSession ==
    /\ pc = "loop"
    /\ hops = 0
    /\ current = initiator
    /\ other = OtherOf(variant, initiator)
    /\ next_message = Some(IF variant \in HttpVariants
                           THEN UserMessage(<<"prompt">>) ELSE <<"prompt">>)
    /\ events = << >>
    /\ loc = InitLocals(variant)
    /\ calls = << >>
    /\ yielded = << >>
    /\ raisedAt = 0
    /\ dropped = << >>
    /\ conf = InitConf(variant)

Init ==
    /\ variant \in Variants
    /\ peer \in Peers
    /\ hop_limit \in (IF variant \in HttpVariants THEN 1..MaxHopLimit ELSE {MAX_HOPS})
    /\ initiator \in Labels(variant)
    /\ InitSession
    /\ s2 = S2Idle
    /\ viewer = ViewerIdle
    /\ cls = ClsIdle
    /\ dcall = DcallIdle
    /\ RestIdle

\* the loop condition holds: the driver opens the stream of the next hop
OpenStream ==
    /\ pc = "loop"
    /\ LoopCond
    /\ pc' = "stream"
    /\ loc' = FreshLocals(variant, loc)
    /\ hops' = IF variant \in SdkVariants THEN hops + 1 ELSE hops
    /\ calls' = Append(calls, [to |-> current, peer |-> other, message |-> next_message])
    /\ UNCHANGED <<variant, peer, hop_limit, initiator, current, other,
                   next_message, events, yielded, raisedAt, dropped, conf>>
    /\ UNCHANGED aux

\* the loop condition fails: the driver returns
Return ==
    /\ pc = "loop"
    /\ ~LoopCond
    /\ pc' = "done"
    /\ UNCHANGED <<variant, peer, hop_limit, initiator, hops, current, other,
                   next_message, events, loc, calls, yielded, raisedAt, dropped, conf>>
    /\ UNCHANGED aux

\* the stream yields a frame
Yield(f) ==
    /\ pc = "stream"
    /\ Len(yielded) + Len(dropped) < FrameBudget(peer, hop_limit)
    /\ yielded' = Append(yielded, [hop |-> Len(calls), frame |-> f])
    /\ IF variant \in HttpVariants
       THEN LET r == IF variant = "gradio_app"
                     THEN V1Frame(f, events, loc, current, Len(calls))
                     ELSE V23Frame(variant, f, events, loc, current, Len(calls))
            IN  /\ events' = r.events
                /\ loc' = r.loc
                /\ UNCHANGED <<pc, hops, current, other, next_message>>
       ELSE LET r == SdkFrame(variant, f, loc, current, other, Len(calls))
            IN  IF r.brk
                THEN EndHopSdk(r.loc)
                ELSE /\ loc' = r.loc
                     /\ UNCHANGED <<pc, hops, current, other, next_message, events>>
    /\ conf' = IF variant \in HttpVariants
               THEN ConfAfter(variant, f, conf, current) ELSE conf
    /\ UNCHANGED <<variant, peer, hop_limit, initiator, calls, raisedAt, dropped>>
    /\ UNCHANGED aux

\* the response carries an SSE event that json.loads rejects: sse_stream
\* swallows the exception and reads on, the for loop of the driver sees nothing
Skip(event) ==
    /\ pc = "stream"
    /\ variant \in HttpVariants
    /\ sse_stream(event) = None
    /\ Len(yielded) + Len(dropped) < FrameBudget(peer, hop_limit)
    /\ dropped' = Append(dropped, Len(calls))
    /\ UNCHANGED <<variant, peer, hop_limit, initiator, pc, hops, current, other,
                   next_message, events, loc, calls, yielded, raisedAt, conf>>
    /\ UNCHANGED aux

\* the next SSE event of the response, or the next item of the SDK stream
YieldAny ==
    \E i \in 1..Len(Alphabet(variant, peer)) :
        LET ev == Alphabet(variant, peer)[i]
        IN  IF variant \in HttpVariants
            THEN IF sse_stream(ev) = None THEN Skip(ev) ELSE Yield(sse_stream(ev)[1])
            ELSE Yield(ev)

\* the peer closes the stream
StreamClose ==
    /\ pc = "stream"
    /\ IF variant \in HttpVariants THEN EndHopHttp(events, loc) ELSE EndHopSdk(loc)
    /\ UNCHANGED <<variant, peer, hop_limit, initiator, calls, yielded, raisedAt,
                   dropped, conf>>
    /\ UNCHANGED aux

\* the streaming call raises (when opened or while iterated)
StreamError ==
    /\ pc = "stream"
    /\ CASE variant = "gradio_app" ->
              /\ events' = Append(events, ErrorEntry(current, Len(calls)))
              /\ pc' = "done"
              /\ UNCHANGED <<hops, current, other, next_message, loc>>
         [] variant \in {"grapp_v2", "grapp_v3"} ->
              EndHopHttp(Append(events, ErrorEntry(current, Len(calls))),
                         V23ErrorLocals(loc))
         [] OTHER ->
              /\ pc' = "raised"
              /\ UNCHANGED <<hops, current, other, next_message, events, loc>>
    /\ raisedAt' = Len(calls)
    /\ UNCHANGED <<variant, peer, hop_limit, initiator, calls, yielded, dropped, conf>>
    /\ UNCHANGED aux

Next == OpenStream \/ Return \/ YieldAny \/ StreamClose \/ StreamError

Spec == Init /\ [][Next]_vars

-----------------------------------------------------------------------------
(* Two sessions at once: the session above and a second call of the same
   driver, an exchange of one hop (hop_limit 1, or a peer whose answer ends
   the exchange).  The locals of a call are its own; the two calls share
   the endpoint configurations. *)

\* mutant: the transcript of a new call is the list of the call before it
NewTranscriptShared(existing) == existing

\* events = [] / relay_events: field(default_factory=list): a new call starts
\* with a list of its own, whatever lists exist
NewTranscript(existing) == << >>

\* what the peer of the second session may send
S2Frames(v) ==
    IF v \in HttpVariants
    THEN << MsgContext(<<TextPart("yo")>>, "c2"), TaskFrame >>
    ELSE << SdkStatus(<<"working">>, FALSE), SdkStatus(<<"completed">>, TRUE),
            SdkMsg(<< >>) >>

\* the entries the second session built: those after the first n of evs; they
\* carry its number and the position of its own frame
Own2(n, evs, at) ==
    [i \in 1..Len(evs) |->
        IF i > n THEN [evs[i] EXCEPT !.session = 2, !.at = at] ELSE evs[i]]

ConcInit ==
    /\ variant \in Variants
    /\ peer = "chatty"
    /\ hop_limit = IF variant \in HttpVariants THEN 2 ELSE MAX_HOPS
    /\ initiator \in Labels(variant)
    /\ InitSession
    /\ s2 = S2Idle
    /\ viewer = ViewerIdle
    /\ cls = ClsIdle
    /\ dcall = DcallIdle
    /\ RestIdle

S2Frame ==
    UNCHANGED <<variant, peer, hop_limit, initiator, pc, hops, current, other,
                next_message, events, loc, calls, yielded, raisedAt, dropped,
                viewer, cls, dcall, reconn, store, claimsrun, sse>>

\* the handler is called a second time and opens the stream of its first hop;
\* run_demo builds the configurations of a call anew
S2Start(ini) ==
    /\ s2.pc = "idle"
    /\ s2' = [pc |-> "stream", initiator |-> ini, current |-> ini,
              other |-> OtherOf(variant, ini),
              hops |-> IF variant \in SdkVariants THEN 1 ELSE 0,
              events |-> NewTranscript(events),
              loc |-> FreshLocals(variant, InitLocals(variant)),
              conf |-> InitConf(variant),
              nframes |-> 0, failed |-> FALSE]
    /\ UNCHANGED conf
    /\ S2Frame

\* the decision after the only hop of the second session (hop_limit is 1)
S2EndHopHttp(evs, l, failed) ==
    LET relays == IF variant = "gradio_app" THEN Truthy(l.last_text_from_sender)
                  ELSE V23Relays(variant, l)
        target == IF variant = "gradio_app" THEN s2.other ELSE NextTarget(l, s2.other)
    IN  [s2 EXCEPT !.pc = "done",
                   !.failed = failed,
                   !.hops = 1,
                   !.events = IF relays /\ variant # "gradio_app"
                              THEN MarkRelayed(variant, evs, l) ELSE evs,
                   !.loc = IF relays /\ variant = "gradio_app"
                           THEN [l EXCEPT !.last_text_from_sender = None] ELSE l,
                   !.current = IF relays THEN target ELSE @,
                   !.other = IF relays THEN OtherOf(variant, target) ELSE @]

S2EndHopSdk(l) ==
    [s2 EXCEPT !.pc = "done",
               !.events = Extend(@, Tagged(l.collected, s2.other)),
               !.loc = l]

\* the stream of the second session yields a frame
S2Yield(f) ==
    /\ s2.pc = "stream"
    /\ s2.nframes < MaxFrames
    /\ IF variant \in HttpVariants
       THEN LET r == IF variant = "gradio_app"
                     THEN V1Frame(f, s2.events, s2.loc, s2.current, 1)
                     ELSE V23Frame(variant, f, s2.events, s2.loc, s2.current, 1)
            IN  /\ s2' = [s2 EXCEPT
                             !.events = Own2(Len(s2.events), r.events, s2.nframes + 1),
                             !.loc = r.loc,
                             !.conf = ConfAfter(variant, f, @, s2.current),
                             !.nframes = @ + 1]
                /\ UNCHANGED conf
       ELSE LET r == SdkFrame(variant, f, s2.loc, s2.current, s2.other, 1)
                l == [r.loc EXCEPT !.collected =
                         Own2(Len(s2.loc.collected), @, s2.nframes + 1)]
            IN  /\ r.brk => SdkBreaks(variant, l)
                /\ s2' = IF r.brk
                         THEN [S2EndHopSdk(l) EXCEPT !.nframes = @ + 1]
                         ELSE [s2 EXCEPT !.loc = l, !.nframes = @ + 1]
                /\ UNCHANGED conf
    /\ S2Frame

\* the peer of the second session closes the stream
S2Close ==
    /\ s2.pc = "stream"
    /\ s2' = IF variant \in HttpVariants
             THEN S2EndHopHttp(s2.events, s2.loc, FALSE)
             ELSE S2EndHopSdk(s2.loc)
    /\ UNCHANGED conf
    /\ S2Frame

\* the streaming call of the second session raises
S2Error ==
    /\ s2.pc = "stream"
    /\ LET evs == Own2(Len(s2.events),
                       Append(s2.events, ErrorEntry(s2.current, 1)), s2.nframes + 1)
       IN  s2' = CASE variant = "gradio_app" ->
                       [s2 EXCEPT !.pc = "done", !.failed = TRUE, !.events = evs]
                   [] variant \in {"grapp_v2", "grapp_v3"} ->
                       S2EndHopHttp(evs, V23ErrorLocals(s2.loc), TRUE)
                   [] OTHER -> [s2 EXCEPT !.pc = "raised", !.failed = TRUE]
    /\ UNCHANGED conf
    /\ S2Frame

ConcNext ==
    \/ Next
    \/ \E ini \in Labels(variant) : S2Start(ini)
    \/ \E i \in 1..Len(S2Frames(variant)) : S2Yield(S2Frames(variant)[i])
    \/ S2Close
    \/ S2Error

ConcSpec == ConcInit /\ [][ConcNext]_vars

-----------------------------------------------------------------------------
(* A reconnect of the dashboard (on_connect of grapp_v4 / grapp_v6) while the
   session relays.  relay_by_default took its two AgentHandles from app.agents
   when it started; on_connect awaits close_agent on each handle of
   app.agents, clears the dict, builds two new handles and assigns them. *)

\* the order of app.agents: {"claims": ..., "mr": ...}
AgentKeys == <<"claims", "mr">>

ReconnInit ==
    /\ variant \in SdkVariants
    /\ peer = "chatty"
    /\ hop_limit = MAX_HOPS
    /\ initiator \in Labels(variant)
    /\ InitSession
    /\ s2 = S2Idle
    /\ viewer = ViewerIdle
    /\ cls = ClsIdle
    /\ dcall = DcallIdle
    /\ store = StoreIdle
    /\ claimsrun = ClaimsrunIdle
    /\ sse = SseIdle
    /\ reconn = [pc |-> "connected",
                 held |-> [k \in Labels(variant) |-> "open"],
                 httpx |-> [k \in Labels(variant) |-> "open"],
                 agents |-> "held", closed |-> 0, built |-> 0]

ReconnFrame == UNCHANGED <<sessionVars, s2, viewer, cls, dcall, store, claimsrun, sse>>

\* a step of the session: stream_once is entered only on a client that is open
\* (what a stream already open does when its client is closed is left to the
\* peer: it may still yield, end or raise)
SessionStep ==
    /\ (pc = "loop" /\ LoopCond) => reconn.held[current] = "open"
    /\ Next

\* the next iteration of the loop enters stream_once on a client on_connect
\* has closed: stream_once has set the locals of the new hop when
\* send_message raises, before a stream is open, and the exception leaves
\* relay_by_default and on_submit
ClosedClientRaises ==
    /\ pc = "loop"
    /\ LoopCond
    /\ reconn.held[current] = "closed"
    /\ pc' = "raised"
    /\ hops' = hops + 1
    /\ raisedAt' = Len(calls) + 1
    /\ loc' = FreshLocals(variant, loc)
    /\ UNCHANGED <<variant, peer, hop_limit, initiator, current, other,
                   next_message, events, calls, yielded, dropped, conf>>
    /\ UNCHANGED aux

\* on_connect, started while the session relays, in close_agent(handle) for
\* the next handle of app.agents: await agent.client.close() has returned
CloseClient ==
    /\ reconn.pc \in {"connected", "closing"}
    /\ reconn.closed = 0 => (pc \in {"loop", "stream"} /\ calls # << >>)
    /\ reconn.closed < Len(AgentKeys)
    /\ reconn.held[AgentKeys[reconn.closed + 1]] = "open"
    /\ reconn' = [reconn EXCEPT !.held[AgentKeys[reconn.closed + 1]] = "closed"]
    /\ ReconnFrame

\* await agent.httpx_client.aclose() has returned and with it close_agent of
\* this handle; after the last handle app.agents is cleared
CloseHandle ==
    /\ reconn.pc \in {"connected", "closing"}
    /\ reconn.closed < Len(AgentKeys)
    /\ reconn.held[AgentKeys[reconn.closed + 1]] = "closed"
    /\ LET k == AgentKeys[reconn.closed + 1]
       IN  reconn' = [reconn EXCEPT
                         !.httpx[k] = "closed",
                         !.closed = @ + 1,
                         !.pc = IF reconn.closed + 1 = Len(AgentKeys)
                                THEN "building" ELSE "closing",
                         !.agents = IF reconn.closed + 1 = Len(AgentKeys)
                                    THEN "empty" ELSE @]
    /\ ReconnFrame

\* await build_agent(...) returns; after the second one app.agents is assigned
BuildHandle ==
    /\ reconn.pc = "building"
    /\ reconn' = [reconn EXCEPT
                      !.built = @ + 1,
                      !.pc = IF reconn.built + 1 = Len(AgentKeys) THEN "reconnected" ELSE @,
                      !.agents = IF reconn.built + 1 = Len(AgentKeys) THEN "new" ELSE @]
    /\ ReconnFrame

\* build_agent raises (the card cannot be fetched): on_connect ends, app.agents
\* stays empty
BuildFails ==
    /\ reconn.pc = "building"
    /\ reconn' = [reconn EXCEPT !.pc = "failed"]
    /\ ReconnFrame

ReconnNext ==
    \/ SessionStep
    \/ ClosedClientRaises
    \/ CloseClient
    \/ CloseHandle
    \/ BuildHandle
    \/ BuildFails

ReconnSpec == ReconnInit /\ [][ReconnNext]_vars

-----------------------------------------------------------------------------
(* on_send of grapp_v3, called several times.  Gradio hands the handler the
   value of sessions_state when the call starts and stores the list the
   handler returns when it ends. *)

\* calls of on_send
MaxCalls == 3

\* what the user typed: two prompts and a blank one
SendPrompts == {<<"claim 17">>, <<"status?">>, <<" ">>}

\* the list on_send returns for sessions_state, from the values it was handed:
\* a blank prompt hands the list back, a missing configuration raises gr.Error
\* (None: nothing is returned), otherwise sessions = (sessions or []) + [sess];
\* the id is a fresh uuid4 (the number of the call), the events are those of
\* the conversation the call ran
on_send(prompt_v, a_conf, b_conf, sessions, call) ==
    IF Strip(prompt_v) = << >> THEN Some(sessions)
    ELSE IF ~a_conf \/ ~b_conf THEN None
    ELSE Some(Append(sessions, [id |-> call, prompt |-> prompt_v, events |-> call]))

StoreInit ==
    /\ variant = "grapp_v3"
    /\ peer = "policy"
    /\ hop_limit = 1
    /\ initiator = "A"
    /\ InitSession
    /\ s2 = S2Idle
    /\ viewer = ViewerIdle
    /\ cls = ClsIdle
    /\ dcall = DcallIdle
    /\ reconn = ReconnIdle
    /\ claimsrun = ClaimsrunIdle
    /\ sse = SseIdle
    /\ store = [pc |-> "serving", a_conf_state |-> FALSE, b_conf_state |-> FALSE,
                sessions_state |-> << >>, started |-> 0,
                running |-> << >>, completed |-> {}]

StoreFrame == UNCHANGED <<sessionVars, s2, viewer, cls, dcall, reconn, claimsrun, sse>>

\* on_connect: both configurations are set when the cards were fetched, both
\* are reset to {} when not (a configuration is modelled by its truth value)
StoreConnect(ok) ==
    /\ store.pc = "serving"
    /\ store' = [store EXCEPT !.a_conf_state = ok, !.b_conf_state = ok]
    /\ StoreFrame

\* the user clicks Send: the handler starts with the values the states hold now
SendStart(prompt_v) ==
    /\ store.pc = "serving"
    /\ store.started < MaxCalls
    /\ store' = [store EXCEPT
                    !.started = @ + 1,
                    !.running = Append(@, [call |-> store.started + 1, prompt |-> prompt_v,
                                           a_conf |-> store.a_conf_state,
                                           b_conf |-> store.b_conf_state,
                                           sessions |-> store.sessions_state])]
    /\ StoreFrame

\* a handler ends: the list it returns replaces the sessions state; when it
\* raised, nothing is stored and no session was completed
SendEnd(i) ==
    /\ store.pc = "serving"
    /\ i \in 1..Len(store.running)
    /\ LET r == store.running[i]
           out == on_send(r.prompt, r.a_conf, r.b_conf, r.sessions, r.call)
       IN  store' = [store EXCEPT
                        !.sessions_state = IF out = None THEN @ ELSE out[1],
                        !.running = SubSeq(@, 1, i - 1) \o SubSeq(@, i + 1, Len(@)),
                        !.completed = IF Strip(r.prompt) = << >> \/ out = None THEN @
                                       ELSE @ \cup {r.call}]
    /\ StoreFrame

StoreNext ==
    \/ \E ok \in BOOLEAN : StoreConnect(ok)
    \/ \E p \in SendPrompts : SendStart(p)
    \/ \E i \in 1..MaxCalls : SendEnd(i)

StoreSpec == StoreInit /\ [][StoreNext]_vars

-----------------------------------------------------------------------------
(* The claims agent (autoa2a/clm_agent.py, autoa2a/clm0_agent.py): one request
   of on_send_streaming_message and its Transcript *)

ClaimsAgents == {"clm_agent", "clm0_agent"}

\* uuid4 values
CorrIds == {"c-1", "c-2"}

\* events yielded by the MR stream of one delegation
MaxMrEvents == 2

\* what the MR stream yields (status update, message, artifact)
MrEvents == {"working", "message", "artifact"}

\* the claims database: claim id -> mr_id
CLAIMS_DB == [c \in {"CLM-1001", "CLM-1002"} |->
                 [mr_id |-> IF c = "CLM-1001" THEN "MR001" ELSE "MR002"]]

CLINICAL_KEYWORDS ==
    {"clinical", "summary", "summarize", "mr", "medical record", "medications",
     "meds", "allergies", "icd10", "icd-10", "diagnosis", "labs", "vitals",
     "red flags", "risk", "imaging", "radiology"}

\* any(k in user_text.lower() for k in CLINICAL_KEYWORDS), on words
needs_clinical(user_text) ==
    \E i \in 1..Len(user_text) : Lower(user_text)[i] \in CLINICAL_KEYWORDS

\* texts of the request
ClaimsTexts ==
    { <<"status?">>,
      <<"claim_id=">>,
      <<"claim_id=", "CLM-9999">>,
      <<"claim_id=", "CLM-1001", " ", "summarize", " ", "MR">>,
      <<"claim_id=", "CLM-1002", " ", "show", " ", "status">> }

\* "claim_id=" in user_text
HasClaimId(user_text) == \E i \in 1..Len(user_text) : user_text[i] = "claim_id="

\* user_text.split("claim_id=")[-1].strip().split(): the words after the last
\* "claim_id="
AfterClaimId(user_text) ==
    LET last == CHOOSE i \in 1..Len(user_text) :
                    /\ user_text[i] = "claim_id="
                    /\ \A j \in (i + 1)..Len(user_text) : user_text[j] # "claim_id="
    IN  Strip(SubSeq(user_text, last + 1, Len(user_text)))

\* Transcript(corr_id, LOG_DIR)
NewClaimsTranscript(corr_id) == [correlation_id |-> corr_id, events |-> << >>]

\* Transcript.add
TranscriptAdd(t, actor, kind, payload) ==
    [t EXCEPT !.events = Append(@, [correlation_id |-> t.correlation_id,
                                    actor |-> actor, kind |-> kind,
                                    payload |-> payload])]

\* the entry after the claim is loaded
RoutingKind(agent) == IF agent = "clm_agent" THEN "routing_decision" ELSE "claim_loaded"

\* will_delegate: clm_agent delegates clinical prompts of claims with a
\* record, clm0_agent every claim with a record
WillDelegate(agent, claim, user_text) ==
    /\ CLAIMS_DB[claim].mr_id # ""
    /\ agent = "clm_agent" => needs_clinical(user_text)

ClaimsInit ==
    /\ variant = "grapp_v3"
    /\ peer = "policy"
    /\ hop_limit = 1
    /\ initiator = "A"
    /\ InitSession
    /\ s2 = S2Idle
    /\ viewer = ViewerIdle
    /\ cls = ClsIdle
    /\ dcall = DcallIdle
    /\ reconn = ReconnIdle
    /\ store = StoreIdle
    /\ sse = SseIdle
    /\ \E a \in ClaimsAgents, c \in CorrIds, t \in ClaimsTexts :
           claimsrun = [pc |-> "received", agent |-> a, corr_id |-> c, text |-> t,
                        transcript |-> NewClaimsTranscript(c), claim |-> "",
                        streamed |-> << >>]

ClaimsFrame == UNCHANGED <<sessionVars, s2, viewer, cls, dcall, reconn, store, sse>>

\* the payload of the entry after the claim is loaded: routing_decision of
\* clm_agent names the decision, claim_loaded of clm0_agent the claim
RoutingPayload(agent, claim_id, user_text) ==
    IF agent = "clm_agent"
    THEN [will_delegate |-> WillDelegate(agent, claim_id, user_text),
          is_clinical |-> needs_clinical(user_text)]
    ELSE [claim_id |-> claim_id, has_mr |-> CLAIMS_DB[claim_id].mr_id # ""]

\* on_send_streaming_message up to its next await: the request is recorded;
\* the claim id is read from the text ([0] of an empty list raises)
ReceiveRequest ==
    /\ claimsrun.pc = "received"
    /\ LET user_text == Strip(claimsrun.text)
           t1 == TranscriptAdd(claimsrun.transcript, "user", "incoming_request", "text")
       IN  claimsrun' = [claimsrun EXCEPT
               !.transcript = t1,
               !.pc = IF HasClaimId(user_text) /\ AfterClaimId(user_text) = << >>
                      THEN "raised" ELSE "parsing"]
    /\ ClaimsFrame

\* after the status update: the error entry of a request without a known
\* claim, else the routing entry and, for a request answered locally, the
\* local_only entry
ParseRequest ==
    /\ claimsrun.pc = "parsing"
    /\ LET user_text == Strip(claimsrun.text)
           t1 == claimsrun.transcript
       IN  IF ~HasClaimId(user_text)
           THEN claimsrun' = [claimsrun EXCEPT
                    !.transcript = TranscriptAdd(t1, "claims_agent", "error", "missing_claim_id"),
                    !.pc = "done"]
           ELSE LET claim_id == Head(AfterClaimId(user_text))
                IN  IF claim_id \notin DOMAIN CLAIMS_DB
                    THEN claimsrun' = [claimsrun EXCEPT
                             !.transcript = TranscriptAdd(t1, "claims_agent", "error", "unknown_claim"),
                             !.pc = "done"]
                    ELSE LET t2 == TranscriptAdd(t1, "claims_agent",
                                       RoutingKind(claimsrun.agent),
                                       RoutingPayload(claimsrun.agent, claim_id, user_text))
                         IN  IF WillDelegate(claimsrun.agent, claim_id, user_text)
                             THEN claimsrun' = [claimsrun EXCEPT
                                      !.transcript = t2, !.claim = claim_id,
                                      !.pc = "delegating"]
                             ELSE IF claimsrun.agent = "clm_agent"
                             THEN claimsrun' = [claimsrun EXCEPT
                                      !.transcript = TranscriptAdd(t2, "claims_agent",
                                                                   "local_only", "admin"),
                                      !.claim = claim_id, !.pc = "done"]
                             ELSE claimsrun' = [claimsrun EXCEPT
                                      !.transcript = t2, !.claim = claim_id,
                                      !.pc = "adjudicating"]
    /\ ClaimsFrame

\* _call_mr_agent: the first entry, before the client is resolved
DelegateStart ==
    /\ claimsrun.pc = "delegating"
    /\ claimsrun' = [claimsrun EXCEPT
            !.transcript = TranscriptAdd(@, "claims_agent", "delegate_start",
                                         CLAIMS_DB[claimsrun.claim].mr_id),
            !.pc = "resolving"]
    /\ ClaimsFrame

\* A2AClient.get_client_from_agent_card_url returns a client
ResolveClient ==
    /\ claimsrun.pc = "resolving"
    /\ claimsrun' = [claimsrun EXCEPT !.pc = "streaming"]
    /\ ClaimsFrame

\* A2AClient.get_client_from_agent_card_url raises: nothing catches it
ResolveFails ==
    /\ claimsrun.pc = "resolving"
    /\ claimsrun' = [claimsrun EXCEPT !.pc = "raised"]
    /\ ClaimsFrame

\* one event of mr_client.send_message_streaming
MrEvent(evt) ==
    /\ claimsrun.pc = "streaming"
    /\ Len(claimsrun.streamed) < MaxMrEvents
    /\ claimsrun' = [claimsrun EXCEPT
            !.transcript = TranscriptAdd(@, "mr_agent", "stream_event", evt),
            !.streamed = Append(@, evt)]
    /\ ClaimsFrame

\* the MR stream ends
MrStreamEnds ==
    /\ claimsrun.pc = "streaming"
    /\ claimsrun' = [claimsrun EXCEPT
            !.transcript = TranscriptAdd(@, "claims_agent", "delegate_end", "mr_json"),
            !.pc = "adjudicating"]
    /\ ClaimsFrame

\* the MR stream raises: finally closes the client, nothing catches it
MrStreamFails ==
    /\ claimsrun.pc = "streaming"
    /\ claimsrun' = [claimsrun EXCEPT !.pc = "raised"]
    /\ ClaimsFrame

\* after the status update: adjudication_start, then evaluate_claim_with_llm
\* is awaited
AdjudicationStart ==
    /\ claimsrun.pc = "adjudicating"
    /\ claimsrun' = [claimsrun EXCEPT
            !.transcript = TranscriptAdd(@, "claims_agent", "adjudication_start", ""),
            !.pc = "deciding"]
    /\ ClaimsFrame

\* evaluate_claim_with_llm returns: final_decision, and the result is yielded
Adjudicate ==
    /\ claimsrun.pc = "deciding"
    /\ claimsrun' = [claimsrun EXCEPT
            !.transcript = TranscriptAdd(@, "claims_agent", "final_decision", "decision"),
            !.pc = "done"]
    /\ ClaimsFrame

\* LLM.create raises in evaluate_claim_with_llm
AdjudicateFails ==
    /\ claimsrun.pc = "deciding"
    /\ claimsrun' = [claimsrun EXCEPT !.pc = "raised"]
    /\ ClaimsFrame

ClaimsNext ==
    \/ ReceiveRequest
    \/ ParseRequest
    \/ DelegateStart
    \/ ResolveClient
    \/ ResolveFails
    \/ \E e \in MrEvents : MrEvent(e)
    \/ MrStreamEnds
    \/ MrStreamFails
    \/ AdjudicationStart
    \/ Adjudicate
    \/ AdjudicateFails

ClaimsSpec == ClaimsInit /\ [][ClaimsNext]_vars

-----------------------------------------------------------------------------
(* Classification of frames, as a function of the frame alone *)

\* a dict with the key k when present holds
Fld(k, present, v) == IF present THEN k :> v ELSE << >>

\* the objects found under a wrapped key: a Message, a Task, a status update,
\* and one of no known shape
InnerObjects ==
    { [role |-> "agent", parts |-> <<TextPart("yo")>>],
      [kind |-> "task", id |-> "t1", status |-> [state |-> "submitted"]],
      [kind |-> "task-status-update", taskId |-> "t1", status |-> [state |-> "working"]],
      [kind |-> "ping"] }

WrappedKeys == <<"message", "task", "statusUpdate", "artifactUpdate">>

\* the wrapped keys of a result: any subset of the four, all holding inner
Wrapping(keys, inner) == [k \in keys |-> inner]

\* the result objects: every combination of the keys the classifier looks at
ResultObjects ==
    { Fld("role", hasRole, "agent")
        @@ Fld("parts", hasParts, <<TextPart("hi"), FilePart>>)
        @@ Fld("kind", kind # "", kind)
        @@ Fld("status", hasStatus, [state |-> "working"])
        @@ Fld("id", hasId, "t1")
        @@ Fld("taskId", hasTaskId, "t1")
        @@ w :
        hasRole \in BOOLEAN, hasParts \in BOOLEAN,
        kind \in {"", "task", "task-status-update", "task-artifact-update", "ping"},
        hasStatus \in BOOLEAN, hasId \in BOOLEAN, hasTaskId \in BOOLEAN,
        w \in {Wrapping(keys, inner) :
                  keys \in SUBSET {WrappedKeys[i] : i \in 1..4}, inner \in InnerObjects} }

\* the frames to classify: a result object, an empty result, no result at all
ClassifyFrames ==
    {[result |-> r] : r \in ResultObjects} \cup {[jsonrpc |-> "2.0"]}

\* parse_stream_result followed by extract_text_parts on its payload
ClassifyOnce(frame) ==
    LET tp == parse_stream_result(frame)
    IN  [typ |-> tp[1], text |-> Strip(extract_text_parts(tp[2]))]

\* classifications made of one frame
MaxRuns == 2

ClassifyInit ==
    /\ variant = "grapp_v3"
    /\ peer = "policy"
    /\ hop_limit = 1
    /\ initiator = "A"
    /\ InitSession
    /\ s2 = S2Idle
    /\ viewer = ViewerIdle
    /\ dcall = DcallIdle
    /\ RestIdle
    /\ \E f \in ClassifyFrames : cls = [pc |-> "frame", frame |-> f, runs |-> << >>]

\* the loop body classifies the frame it holds
Classify ==
    /\ cls.pc = "frame"
    /\ Len(cls.runs) < MaxRuns
    /\ cls' = [cls EXCEPT !.runs = Append(@, ClassifyOnce(cls.frame))]
    /\ UNCHANGED <<variant, peer, hop_limit, initiator, pc, hops, current, other,
                   next_message, events, loc, calls, yielded, raisedAt, dropped, conf,
                   s2, viewer, dcall, reconn, store, claimsrun, sse>>

ClassifyNext == Classify

ClassifySpec == ClassifyInit /\ [][ClassifyNext]_vars

-----------------------------------------------------------------------------
(* The viewer: requests submitted one after the other, and selections *)

\* requests a viewer holds, and the prompts typed into it
MaxRequests == 3
Prompts == {<<"claim 17">>, <<"status?">>, <<" ">>}

\* on_send / on_submit calls that have started and not yet ended
MaxInFlight == 2

\* the drivers with a viewer of past requests
ViewerVariants == {"grapp_v3", "grapp_v4", "grapp_v6"}

\* on_pick of grapp_v3: the session of the request id picked in the dropdown
on_pick(req_id, sessions) ==
    IF \E i \in 1..Len(sessions) : sessions[i].id = req_id
    THEN Some(req_id) ELSE None

\* on_chat_select of grapp_v3: the session at the row clicked in the chat
on_chat_select(row, sessions) ==
    IF row < 1 \/ row > Len(sessions) THEN None ELSE Some(sessions[row].id)

\* on_select_chat of grapp_v4 and grapp_v6: the request whose prompt equals the
\* user text of the pair clicked, the last such request in grapp_v4 (the loop
\* runs to its end), the first in grapp_v6 (the loop breaks)
on_select_chat(v, selected_user_text, requests) ==
    LET same == {i \in 1..Len(requests) : requests[i].prompt = selected_user_text}
    IN  IF same = {} THEN None
        ELSE IF v = "grapp_v4"
            THEN Some(requests[CHOOSE i \in same : \A j \in same : j <= i].id)
            ELSE Some(requests[CHOOSE i \in same : \A j \in same : i <= j].id)

ViewerInit ==
    /\ variant \in ViewerVariants
    /\ peer = "policy"
    /\ hop_limit = IF variant \in HttpVariants THEN 1 ELSE MAX_HOPS
    /\ initiator \in Labels(variant)
    /\ InitSession
    /\ s2 = S2Idle
    /\ cls = ClsIdle
    /\ dcall = DcallIdle
    /\ RestIdle
    /\ viewer = [pc |-> "view", requests |-> << >>, chat |-> << >>, choices |-> << >>,
                 shown |-> 0, selected_request_id |-> 0,
                 started |-> 0, running |-> << >>,
                 selected |-> 0, last |-> "none"]

ViewerFrame ==
    UNCHANGED <<variant, peer, hop_limit, initiator, pc, hops, current, other,
                next_message, events, loc, calls, yielded, raisedAt, dropped, conf,
                s2, cls, dcall, reconn, store, claimsrun, sse>>

\* a session record of the viewer under a fresh id (uuid4 never repeats: the
\* number of the call)
RequestThread(rid, prompt) == [id |-> rid, prompt |-> prompt, events |-> rid]

\* running without its i-th call
WithoutCall(running, i) == SubSeq(running, 1, i - 1) \o SubSeq(running, i + 1, Len(running))

\* on_send / on_submit starts.  requests is app.requests (sessions_state in
\* grapp_v3), selected_request_id is app.selected_request_id (the value of the
\* picker in grapp_v3), chat and shown are the chat and the relay panel.
\* grapp_v4 and grapp_v6 return at once on a blank prompt, else register the
\* request and select it before they await the relay; the chat is the value
\* the handler was handed.  grapp_v3 writes nothing before it returns.
\* selected and last are history: the request the user last asked to see and
\* the handler that ran last.
SubmitStart(prompt) ==
    /\ viewer.pc = "view"
    /\ Len(viewer.running) < MaxInFlight
    /\ IF Strip(prompt) = << >>
       THEN IF variant = "grapp_v3"
            THEN viewer' = [viewer EXCEPT
                     !.running = Append(@, [rid |-> 0, prompt |-> prompt,
                                            requests |-> viewer.requests,
                                            chat |-> viewer.chat])]
            ELSE UNCHANGED viewer
       ELSE /\ viewer.started < MaxRequests
            /\ LET rid == viewer.started + 1
               IN  IF variant = "grapp_v3"
                   THEN viewer' = [viewer EXCEPT
                            !.started = rid,
                            !.running = Append(@, [rid |-> rid, prompt |-> prompt,
                                                   requests |-> viewer.requests,
                                                   chat |-> viewer.chat])]
                   ELSE viewer' = [viewer EXCEPT
                            !.started = rid,
                            !.requests = Append(@, RequestThread(rid, prompt)),
                            !.selected_request_id = rid,
                            !.running = Append(@, [rid |-> rid, prompt |-> prompt,
                                                   requests |-> << >>,
                                                   chat |-> viewer.chat])]
    /\ ViewerFrame

\* on_send / on_submit returns: the chat it was handed with the new pair, the
\* relay panel of the new session; in grapp_v3 also the sessions it was
\* handed with the new one, and the picker with its choices and value
SubmitReturns(i) ==
    /\ viewer.pc = "view"
    /\ i \in 1..Len(viewer.running)
    /\ LET r == viewer.running[i]
           pair == [prompt |-> r.prompt, request |-> r.rid]
       IN  IF r.rid = 0
           THEN viewer' = [viewer EXCEPT
                    !.requests = r.requests,
                    !.chat = r.chat,
                    !.running = WithoutCall(@, i)]
           ELSE IF variant = "grapp_v3"
           THEN LET sessions == Append(r.requests, RequestThread(r.rid, r.prompt))
                IN  viewer' = [viewer EXCEPT
                        !.requests = sessions,
                        !.chat = Append(r.chat, pair),
                        !.choices = [k \in 1..Len(sessions) |-> sessions[k].id],
                        !.selected_request_id = r.rid,
                        !.shown = r.rid,
                        !.running = WithoutCall(@, i),
                        !.selected = r.rid,
                        !.last = "submit"]
           ELSE viewer' = [viewer EXCEPT
                    !.chat = Append(r.chat, pair),
                    !.shown = r.rid,
                    !.running = WithoutCall(@, i),
                    !.selected = r.rid,
                    !.last = "submit"]
    /\ ViewerFrame

\* on_send raises gr.Error (no configuration), relay_by_default raises inside
\* on_submit: nothing is handed to the components; what on_submit registered
\* before the await stays
SubmitRaises(i) ==
    /\ viewer.pc = "view"
    /\ i \in 1..Len(viewer.running)
    /\ viewer.running[i].rid # 0
    /\ viewer' = [viewer EXCEPT !.running = WithoutCall(@, i)]
    /\ ViewerFrame

\* the user picks a request in the dropdown of grapp_v3
Pick(c) ==
    /\ viewer.pc = "view"
    /\ variant = "grapp_v3"
    /\ c \in 1..Len(viewer.choices)
    /\ LET req_id == viewer.choices[c]
           got == on_pick(req_id, viewer.requests)
       IN  viewer' = [viewer EXCEPT
                         !.shown = IF got = None THEN @ ELSE got[1],
                         !.selected_request_id = req_id,
                         !.selected = req_id,
                         !.last = "pick"]
    /\ ViewerFrame

\* the user clicks the pair of a request in the chat
ChatSelect(row) ==
    /\ viewer.pc = "view"
    /\ row \in 1..Len(viewer.chat)
    /\ LET got == IF variant = "grapp_v3"
                  THEN on_chat_select(row, viewer.requests)
                  ELSE on_select_chat(variant, viewer.chat[row].prompt, viewer.requests)
       IN  viewer' = [viewer EXCEPT
                         !.shown = IF got = None THEN @ ELSE got[1],
                         !.selected_request_id = IF got = None THEN @ ELSE got[1],
                         !.selected = viewer.chat[row].request,
                         !.last = "chat_select"]
    /\ ViewerFrame

\* on_toggle_messages_only of grapp_v6: the relay panel is rendered again from
\* app.selected_request_id
ToggleMessagesOnly ==
    /\ viewer.pc = "view"
    /\ variant = "grapp_v6"
    /\ LET rid == viewer.selected_request_id
       IN  viewer' = [viewer EXCEPT
                         !.shown = IF rid = 0 \/ on_pick(rid, viewer.requests) = None
                                   THEN @ ELSE rid,
                         !.last = "toggle"]
    /\ ViewerFrame

ViewerNext ==
    \/ \E p \in Prompts : SubmitStart(p)
    \/ \E i \in 1..MaxInFlight : SubmitReturns(i)
    \/ \E i \in 1..MaxInFlight : SubmitRaises(i)
    \/ \E c \in 1..MaxRequests : Pick(c)
    \/ \E row \in 1..MaxRequests : ChatSelect(row)
    \/ ToggleMessagesOnly

ViewerSpec == ViewerInit /\ [][ViewerNext]_vars

-----------------------------------------------------------------------------
(* One streaming call: sse_stream of the HTTP drivers, and the delegated calls
   _call_mr_agent (clm_agent) and call_remote_agent (cl_a2) *)

StreamingCalls == {"sse_stream", "_call_mr_agent", "call_remote_agent"}

\* events a streaming call delivers
MaxEvents == 3

\* what a call acquires before it iterates the stream: the response of
\* requests.post, the client built from the agent card, the httpx client of the
\* card resolver and the client built by ClientFactory
Acquired(fn) ==
    CASE fn = "sse_stream" -> {"resp"}
      [] fn = "_call_mr_agent" -> {"mr_client"}
      [] OTHER -> {"http", "client"}

\* what the exit of a call releases: the with block of sse_stream closes the
\* response, the finally of _call_mr_agent awaits mr_client.aclose(), the
\* async with of call_remote_agent awaits the aclose of the httpx client of
\* the resolver (its A2A client is closed by client.close() after the loop,
\* on the normal path only)
Released(fn) ==
    CASE fn = "sse_stream" -> {"resp"}
      [] fn = "_call_mr_agent" -> {"mr_client"}
      [] OTHER -> {"http"}

CallInit ==
    /\ variant = "grapp_v2"
    /\ peer = "policy"
    /\ hop_limit = 1
    /\ initiator = "A"
    /\ InitSession
    /\ s2 = S2Idle
    /\ viewer = ViewerIdle
    /\ cls = ClsIdle
    /\ RestIdle
    /\ \E fn \in StreamingCalls :
           dcall = [pc |-> "start", fn |-> fn, open |-> {}, seen |-> << >>,
                    how |-> "", release |-> "none"]

CallFrame ==
    UNCHANGED <<variant, peer, hop_limit, initiator, pc, hops, current, other,
                next_message, events, loc, calls, yielded, raisedAt, dropped, conf,
                s2, viewer, cls, reconn, store, claimsrun, sse>>

\* call_remote_agent enters async with httpx.AsyncClient and awaits the agent
\* card: the httpx client of the resolver is open, the A2A client not built
CallEnter ==
    /\ dcall.pc = "start"
    /\ dcall.fn = "call_remote_agent"
    /\ dcall' = [dcall EXCEPT !.pc = "resolving", !.open = {"http"}]
    /\ CallFrame

\* where a call stands before it has what it iterates the stream with
BeforeOpen ==
    IF dcall.fn = "call_remote_agent" THEN dcall.pc = "resolving" ELSE dcall.pc = "start"

\* the call has acquired its resources and starts to iterate the stream
CallOpen ==
    /\ BeforeOpen
    /\ dcall' = [dcall EXCEPT !.pc = "stream", !.open = Acquired(dcall.fn)]
    /\ CallFrame

\* opening fails.  sse_stream: requests.post raises (no response, nothing
\* to release), or it has responded with an error status, raise_for_status
\* raises and the with block closes the response.  _call_mr_agent:
\* get_client_from_agent_card_url raises before the try, nothing is held.
\* call_remote_agent: the agent card cannot be fetched and the function
\* leaves its async with, the httpx client is held until its aclose has
\* been awaited.
CallOpenFails(responded) ==
    /\ BeforeOpen
    /\ responded => dcall.fn = "sse_stream"
    /\ dcall' = IF dcall.fn = "call_remote_agent"
                THEN [dcall EXCEPT !.pc = "leaving", !.how = "raised"]
                ELSE [dcall EXCEPT !.pc = "raised",
                                   !.release = IF responded THEN "done" ELSE @]
    /\ CallFrame

\* the stream delivers an event and the loop body runs
CallEvent(kind) ==
    /\ dcall.pc = "stream"
    /\ Len(dcall.seen) < MaxEvents
    /\ dcall' = [dcall EXCEPT !.seen = Append(@, kind)]
    /\ CallFrame

\* call_remote_agent after the loop: await client.close() has returned, the
\* function returns through the exit of its async with
CallClientClosed ==
    /\ dcall.pc = "stream"
    /\ dcall.fn = "call_remote_agent"
    /\ dcall' = [dcall EXCEPT !.pc = "leaving", !.how = "returned",
                              !.open = @ \ {"client"}]
    /\ CallFrame

\* a coroutine starts to leave: in _call_mr_agent the stream ends, raises or
\* the task is cancelled and the finally awaits mr_client.aclose(); in
\* call_remote_agent the stream or client.close() raises or the task is
\* cancelled (at the card, the stream or client.close()) and the async with
\* awaits the aclose of the httpx client.  What the call holds is still held.
CallLeave(how) ==
    /\ dcall.fn # "sse_stream"
    /\ \/ dcall.pc = "stream" /\ (dcall.fn = "call_remote_agent" => how # "returned")
       \/ dcall.pc = "resolving" /\ how = "stopped"
    /\ dcall' = [dcall EXCEPT !.pc = "leaving", !.how = how]
    /\ CallFrame

\* the awaited release ends.  "ok": the resource is closed and the call is
\* left the way it started to leave.  "raised": the aclose raises an
\* Exception, which the finally of _call_mr_agent swallows (the call is left
\* as it started to leave) and the async with of call_remote_agent lets out.
\* "cancelled": the task is cancelled while the aclose is awaited.  An
\* interrupted aclose has not closed what it was to close.
CallRelease(outcome) ==
    /\ dcall.pc = "leaving"
    /\ dcall' = [dcall EXCEPT
                    !.pc = CASE outcome = "ok" -> dcall.how
                             [] outcome = "cancelled" -> "stopped"
                             [] OTHER -> IF dcall.fn = "_call_mr_agent"
                                         THEN dcall.how ELSE "raised",
                    !.open = IF outcome = "ok" THEN @ \ Released(dcall.fn) ELSE @,
                    !.release = IF outcome = "ok" THEN "done" ELSE "interrupted"]
    /\ CallFrame

\* a call left without an awaited release: sse_stream ends, raises while it
\* is iterated or is closed at its yield, and its with block closes the
\* response; _call_mr_agent is cancelled before its client is built (at the
\* await of put_status_update or of get_client_from_agent_card_url)
CallExit(how) ==
    /\ \/ /\ dcall.fn = "sse_stream"
          /\ dcall.pc = "stream"
          /\ how = "stopped" => dcall.seen # << >>
       \/ /\ dcall.fn = "_call_mr_agent"
          /\ dcall.pc = "start"
          /\ how = "stopped"
    /\ dcall' = [dcall EXCEPT
                    !.pc = how,
                    !.open = IF dcall.fn = "sse_stream" THEN @ \ Released(dcall.fn) ELSE @,
                    !.release = IF dcall.fn = "sse_stream" THEN "done" ELSE @]
    /\ CallFrame

CallNext ==
    \/ CallEnter
    \/ CallOpen
    \/ \E responded \in BOOLEAN : CallOpenFails(responded)
    \/ \E kind \in {"update", "message"} : CallEvent(kind)
    \/ CallClientClosed
    \/ \E how \in {"returned", "raised", "stopped"} : CallLeave(how)
    \/ \E outcome \in {"ok", "raised", "cancelled"} : CallRelease(outcome)
    \/ \E how \in {"returned", "raised", "stopped"} : CallExit(how)

CallSpec == CallInit /\ [][CallNext]_vars

-----------------------------------------------------------------------------
(* sse_stream, line by line.  A raw line is its field name, the text after
   the colon and whether blanks surround it; the text is a whole JSON
   document ("doc"), the first or the second half of one, or nothing. *)

RawLine(field, payload, padded) == [field |-> field, payload |-> payload, padded |-> padded]

\* the lines a response is made of
SseLines ==
    { RawLine("data", "doc", FALSE),
      RawLine("data", "{", FALSE),
      RawLine("data", "}", TRUE),
      RawLine("data", "", FALSE),
      RawLine("event", "message", FALSE),
      RawLine("", "", FALSE),
      RawLine("", "", TRUE) }

\* lines of one response
MaxLines == 4

\* raw.strip(): the blanks around the line are gone
StripLine(raw) == [raw EXCEPT !.padded = FALSE]

\* not line: the stripped line is empty
IsEmptyLine(line) == line.field = "" /\ line.payload = ""

\* [l[5:].strip() for l in buf if l.startswith("data:")]
DataLines(buf) ==
    LET isData(l) == l.field = "data"
        ds == SelectSeq(buf, isData)
    IN  [i \in 1..Len(ds) |-> ds[i].payload]

\* json.loads("\n".join(data_lines)): the document, None when the text is no
\* JSON document (nothing but blanks, half a document, two documents)
JsonLoads(data_lines) ==
    LET text(p) == p # ""
        ps == SelectSeq(data_lines, text)
    IN  IF ps = <<"doc">> \/ ps = <<"{", "}">> THEN Some(ps) ELSE None

\* mutant: the buffer is not cleared after a blank line that yields nothing
SseLineKeepsBuf(buf, out, raw) ==
    LET line == StripLine(raw)
    IN  IF IsEmptyLine(line)
        THEN LET data_lines == DataLines(buf)
             IN  IF data_lines # << >> /\ JsonLoads(data_lines) # None
                 THEN [buf |-> buf, out |-> Append(out, JsonLoads(data_lines)[1]),
                       suspended |-> TRUE]
                 ELSE [buf |-> buf, out |-> out, suspended |-> FALSE]
        ELSE [buf |-> Append(buf, line), out |-> out, suspended |-> FALSE]

\* the body of the for loop of sse_stream on one more line, up to the yield or
\* to the end of the body: the buffer, the frames yielded so far, and whether
\* the generator is suspended at yield obj (buf.clear() has not run then)
SseLine(buf, out, raw) ==
    LET line == StripLine(raw)
    IN  IF IsEmptyLine(line)
        THEN LET data_lines == DataLines(buf)
             IN  IF data_lines # << >> /\ JsonLoads(data_lines) # None
                 THEN [buf |-> buf, out |-> Append(out, JsonLoads(data_lines)[1]),
                       suspended |-> TRUE]
                 ELSE [buf |-> << >>, out |-> out, suspended |-> FALSE]
        ELSE [buf |-> Append(buf, line), out |-> out, suspended |-> FALSE]

\* the responses: every sequence of up to MaxLines lines
RECURSIVE Responses(_)
Responses(n) ==
    IF n = 0 THEN {<< >>}
    ELSE Responses(n - 1)
            \cup {Append(r, l) : r \in {x \in Responses(n - 1) : Len(x) = n - 1}, l \in SseLines}

SseInit ==
    /\ variant = "grapp_v2"
    /\ peer = "policy"
    /\ hop_limit = 1
    /\ initiator = "A"
    /\ InitSession
    /\ s2 = S2Idle
    /\ viewer = ViewerIdle
    /\ cls = ClsIdle
    /\ dcall = DcallIdle
    /\ reconn = ReconnIdle
    /\ store = StoreIdle
    /\ claimsrun = ClaimsrunIdle
    /\ \E r \in Responses(MaxLines) :
           sse = [pc |-> "read", lines |-> r, pos |-> 0, buf |-> << >>, out |-> << >>]

SseFrame == UNCHANGED <<sessionVars, s2, viewer, cls, dcall, reconn, store, claimsrun>>

\* iter_lines hands over the next line
SseRead ==
    /\ sse.pc = "read"
    /\ sse.pos < Len(sse.lines)
    /\ LET r == SseLine(sse.buf, sse.out, sse.lines[sse.pos + 1])
       IN  sse' = [sse EXCEPT !.pos = @ + 1, !.buf = r.buf, !.out = r.out,
                              !.pc = IF r.suspended THEN "yielded" ELSE "read"]
    /\ SseFrame

\* the consumer asks for the next frame: the generator goes on after the
\* yield, buf.clear()
SseResume ==
    /\ sse.pc = "yielded"
    /\ sse' = [sse EXCEPT !.pc = "read", !.buf = << >>]
    /\ SseFrame

\* the consumer closes the generator at the yield: the with block closes the
\* response, the lines left are not read
SseStop ==
    /\ sse.pc = "yielded"
    /\ sse' = [sse EXCEPT !.pc = "closed"]
    /\ SseFrame

\* the response is exhausted: the generator returns, what is buffered is dropped
SseClose ==
    /\ sse.pc = "read"
    /\ sse.pos = Len(sse.lines)
    /\ sse' = [sse EXCEPT !.pc = "closed", !.buf = << >>]
    /\ SseFrame

SseNext == SseRead \/ SseResume \/ SseStop \/ SseClose

SseSpec == SseInit /\ [][SseNext]_vars

-----------------------------------------------------------------------------
(* What the claims speak of, read off the histories *)

\* the frames the stream of hop h yielded, in order
FramesOfHop(h) ==
    LET ofHop(y) == y.hop = h
        ys == SelectSeq(yielded, ofHop)
    IN  [i \in 1..Len(ys) |-> ys[i].frame]

IsMessage(f) ==
    IF variant \in HttpVariants THEN parse_stream_result(f)[1] = "message"
    ELSE f.type = "Message"

\* the Messages among the frames of hop h, in order
MessagesOfHop(h) == SelectSeq(FramesOfHop(h), IsMessage)

\* the metadata and the stripped text of a Message frame
MessageMeta(f) ==
    IF variant \in HttpVariants THEN MetaOf(parse_stream_result(f)[2]) ELSE SdkMeta(f)
MessageText(f) ==
    IF variant \in HttpVariants THEN Strip(extract_text_parts(parse_stream_result(f)[2]))
    ELSE get_message_text(f)

\* the metadata disables relaying: relay is, case-insensitively, never, no or
\* false, or the boolean false, or doNotRelay is truthy
OptsOut(meta) ==
    LET r == MetaGet(meta, "relay")
    IN  \/ r.t = "str" /\ Lower(r.s) \in {<<"never">>, <<"no">>, <<"false">>}
        \/ r.t = "bool" /\ ~r.b
        \/ PyTruth(MetaGet(meta, "doNotRelay"))

\* the entries of hop h
EntriesOfHop(h) == LET ofHop(e) == e.hop = h IN SelectSeq(events, ofHop)

\* the driver loop has exited, or is at its head with its condition false
Exited ==
    \/ pc \in {"done", "raised"}
    \/ /\ pc = "loop"
       /\ Len(calls) > 0
       /\ \/ hops >= hop_limit
          \/ variant \in {"grapp_v2", "grapp_v3"} /\ next_message = None

-----------------------------------------------------------------------------
(* Claims *)

HopWithinBound ==
    /\ hops <= hop_limit
    /\ Len(calls) <= hop_limit
    /\ hops <= Len(calls)
    /\ Len(calls) <= hops + 1

\* C1: in every relay driver the hop counter is at most the configured bound
\* (hop_limit, MAX_HOPS), it changes only by +1 and at most once per hop, and the
\* number of streaming calls opened never exceeds the bound, also when a hop
\* ends with a transport error.
C1_HopCounterBounded ==
    /\ HopWithinBound
    /\ [][HopWithinBound' /\ hops' \in {hops, hops + 1}]_vars

\* C1 witness: grapp_v6 has opened MAX_HOPS calls and the last one raised
C1_Witness ==
    variant = "grapp_v6" /\ Len(calls) = MAX_HOPS /\ hops = MAX_HOPS /\ pc = "raised"

\* C2: once the driver loop has exited (hop limit, nothing to relay, transport
\* error, peer terminal state) no streaming call is made and hop counter, active
\* speaker and transcript never change again; the session stays exited.
C2_ExitedIsFinal ==
    [][Exited => /\ Exited'
                 /\ calls' = calls
                 /\ hops' = hops
                 /\ current' = current
                 /\ events' = events]_vars

\* C2 witness: grapp_v3 returned with nothing to relay before the hop limit
C2_Witness ==
    /\ variant = "grapp_v3"
    /\ pc = "done"
    /\ next_message = None
    /\ hops < hop_limit
    /\ Len(events) > 0

\* C3: in grapp_v2 / grapp_v3, after a hop in which a Message carried metadata
\* that disables relaying no further hop is performed and no entry of that hop
\* is marked relayed, whatever its text and its delegateTo.
C3_OptOutStopsRelay ==
    variant \in {"grapp_v2", "grapp_v3"} =>
        \A h \in 1..Len(calls) :
            (\E i \in 1..Len(MessagesOfHop(h)) : OptsOut(MessageMeta(MessagesOfHop(h)[i])))
            => /\ Len(calls) = h
               /\ \A k \in 1..Len(events) : events[k].hop = h => ~events[k].relayed
               /\ pc = "loop" => next_message = None

\* C3 witness: grapp_v3 returned after a hop whose Message opted out with
\* relay = false while naming delegateTo
C3_Witness ==
    /\ variant = "grapp_v3"
    /\ pc = "done"
    /\ Len(calls) = 1
    /\ hop_limit > 1
    /\ \E i \in 1..Len(MessagesOfHop(1)) :
          LET m == MessageMeta(MessagesOfHop(1)[i])
          IN  /\ "delegateTo" \in DOMAIN m
              /\ OptsOut(m)
              /\ MessageText(MessagesOfHop(1)[i]) # << >>

\* the endpoint a Message names as explicit target, None when it names none
\* that is configured: delegateTo in {A, B} (grapp_v2, grapp_v3); target_agent
\* or delegateTo through NAME_MAP (grapp_v6)
NamedTarget(f) ==
    CASE variant \in {"grapp_v2", "grapp_v3"} -> DelegateTo(MessageMeta(f))
      [] variant = "grapp_v6" ->
            LET key == NAME_MAP(Lower(Strip(TargetHint(MessageMeta(f)))))
            IN  IF key # None /\ key[1] \in Labels(variant) THEN key ELSE None
      [] OTHER -> None

NamesTarget(f) == NamedTarget(f) # None

\* C4 as stated: whenever a hop is followed by another, the call of the next
\* hop goes to the endpoint any Message of the hop named, whose peer is the
\* other endpoint.
C4_AnyNamedTargetIsNext ==
    \A h \in 1..Len(calls) :
        \A i \in 1..Len(MessagesOfHop(h)) :
            LET t == NamedTarget(MessagesOfHop(h)[i])
            IN  (h < Len(calls) /\ t # None)
                => /\ calls[h + 1].to = t[1]
                   /\ calls[h + 1].peer = OtherOf(variant, t[1])

\* C4 amended: whenever a hop is followed by another, the call of the next hop
\* goes to the endpoint named by the last Message of the hop that names a
\* configured endpoint, also when that endpoint has just spoken, and the peer
\* is the other endpoint.
C4_LastNamedTargetIsNext ==
    \A h \in 1..Len(calls) :
        LET named == SelectSeq(MessagesOfHop(h), NamesTarget)
        IN  (h < Len(calls) /\ named # << >>)
            => LET t == NamedTarget(named[Len(named)])[1]
               IN  /\ calls[h + 1].to = t
                   /\ calls[h + 1].peer = OtherOf(variant, t)

\* C4 witness: grapp_v3 called the same endpoint twice in a row
C4_Witness ==
    /\ variant = "grapp_v3"
    /\ Len(calls) >= 2
    /\ calls[2].to = calls[1].to
    /\ calls[2].peer # calls[2].to

\* a StatusUpdate whose final flag is set or whose state is completed, failed,
\* canceled or rejected
TerminalSignal(f) ==
    IF variant \in HttpVariants
    THEN LET tp == parse_stream_result(f)
         IN  /\ tp[1] = "statusUpdate"
             /\ (IsFinal(tp[2])
                 \/ StatusState(tp[2]) \in {"completed", "failed", "canceled", "rejected"})
    ELSE /\ f.type = "tuple"
         /\ f.ev.type = "TaskStatusUpdateEvent"
         /\ (f.ev.final
             \/ Lower(f.ev.state) \in {<<"completed">>, <<"failed">>,
                                       <<"canceled">>, <<"rejected">>})

\* C5: a hop in which a final or terminal StatusUpdate was observed is the last
\* hop of the session, whatever Message came earlier in the hop.
C5_TerminalStatusEndsSession ==
    \A h \in 1..Len(calls) :
        (\E i \in 1..Len(FramesOfHop(h)) : TerminalSignal(FramesOfHop(h)[i]))
        => Len(calls) = h

\* C6: no frame of a hop is consumed after a final or terminal StatusUpdate of
\* the same hop.
C6_NothingConsumedAfterTerminal ==
    \A h \in 1..Len(calls) :
        \A i \in 1..Len(FramesOfHop(h)) :
            TerminalSignal(FramesOfHop(h)[i]) => i = Len(FramesOfHop(h))

\* hop h has ended without a transport error and the driver has decided
HopDecided(h) ==
    /\ h >= 1
    /\ h = Len(calls)
    /\ hops = h
    /\ raisedAt # h
    /\ pc \in {"loop", "done"}

HasText(f) == MessageText(f) # << >>

\* C7 as stated (grapp_v2, grapp_v3): the hop relays iff its last Message has
\* text and does not opt out, and then relays that text to the target that
\* Message names, else to the peer.
C7_LastMessageAloneDecides ==
    (variant \in {"grapp_v2", "grapp_v3"} /\ HopDecided(Len(calls))
     /\ MessagesOfHop(Len(calls)) # << >>)
    => LET h == Len(calls)
           last == MessagesOfHop(h)[Len(MessagesOfHop(h))]
       IN  IF HasText(last) /\ ~OptsOut(MessageMeta(last))
           THEN /\ next_message = Some(UserMessage(MessageText(last)))
                /\ current = IF NamesTarget(last) THEN NamedTarget(last)[1]
                             ELSE calls[h].peer
           ELSE next_message = None

\* C7 amended: in grapp_v2 / grapp_v3 a hop relays iff none of its Messages opts
\* out and one of them has text; it relays the text of the last Message that
\* has text, to the target of the last Message that names one, else to the
\* peer.  In gradio_app a hop relays iff its last Message has text, and relays
\* that text to the peer.  In grapp_v4 / grapp_v6 a hop consumes at most one
\* Message.
C7_HopDecision ==
    /\ variant \in SdkVariants =>
          \A h \in 1..Len(calls) : Len(MessagesOfHop(h)) <= 1
    /\ (variant \in {"grapp_v2", "grapp_v3"} /\ HopDecided(Len(calls))) =>
          LET h == Len(calls)
              msgs == MessagesOfHop(h)
              texts == SelectSeq(msgs, HasText)
              named == SelectSeq(msgs, NamesTarget)
              allowed == \A i \in 1..Len(msgs) : ~OptsOut(MessageMeta(msgs[i]))
          IN  IF allowed /\ texts # << >>
              THEN /\ next_message = Some(UserMessage(MessageText(texts[Len(texts)])))
                   /\ current = IF named # << >> THEN NamedTarget(named[Len(named)])[1]
                                ELSE calls[h].peer
              ELSE next_message = None
    /\ (variant = "gradio_app" /\ HopDecided(Len(calls))) =>
          LET h == Len(calls)
              msgs == MessagesOfHop(h)
          IN  IF msgs # << >> /\ HasText(msgs[Len(msgs)])
              THEN /\ next_message = Some(UserMessage(MessageText(msgs[Len(msgs)])))
                   /\ current = calls[h].peer
              ELSE /\ pc = "done"
                   /\ current = calls[h].to

\* C7 witness: a hop of grapp_v3 ended without relay because an earlier
\* Message opted out, though its last Message has text and does not
C7_Witness ==
    /\ variant = "grapp_v3"
    /\ HopDecided(1)
    /\ hop_limit > 1
    /\ Len(MessagesOfHop(1)) >= 2
    /\ OptsOut(MessageMeta(MessagesOfHop(1)[1]))
    /\ LET last == MessagesOfHop(1)[Len(MessagesOfHop(1))]
       IN  HasText(last) /\ ~OptsOut(MessageMeta(last))
    /\ next_message = None

\* a frame for which the for loop of the requests-based drivers records an entry
Recorded(f) == parse_stream_result(f)[1] # "unknown"

IsErrorEntry(e) == e.kind = "error"

\* C8: in gradio_app, grapp_v2 and grapp_v3, when the stream of a hop raised,
\* the transcript holds exactly one error entry, which is its last entry and
\* follows the entries recorded for the frames of that hop; no entry of that hop
\* is marked relayed, no call is opened afterwards, nothing is left to relay
\* and no exception reaches the caller.
C8_ErrorEndsSession ==
    (variant \in HttpVariants /\ raisedAt > 0) =>
        LET h == raisedAt
            ofHop == EntriesOfHop(h)
        IN  /\ Len(SelectSeq(events, IsErrorEntry)) = 1
            /\ events # << >>
            /\ IsErrorEntry(events[Len(events)])
            /\ events[Len(events)].hop = h
            /\ events[Len(events)].origin = "system"
            /\ Len(ofHop) = Len(SelectSeq(FramesOfHop(h), Recorded)) + 1
            /\ \A k \in 1..Len(ofHop) : ~ofHop[k].relayed
            /\ Len(calls) = h
            /\ pc \in {"loop", "done"}
            /\ pc = "loop" => next_message = None

\* C8 witness: grapp_v3 returned after the stream of its first hop raised,
\* a relayable Message having been received before
C8_Witness ==
    /\ variant = "grapp_v3"
    /\ raisedAt = 1
    /\ pc = "done"
    /\ hop_limit > 1
    /\ MessagesOfHop(1) # << >>
    /\ HasText(MessagesOfHop(1)[1])
    /\ \A i \in 1..Len(MessagesOfHop(1)) : ~OptsOut(MessageMeta(MessagesOfHop(1)[i]))

\* the entry says why the session ended: an error entry, or the entry of a
\* final or terminal StatusUpdate
DescribesEnd(e) ==
    \/ IsErrorEntry(e)
    \/ /\ e.kind = "status"
       /\ IF variant \in HttpVariants THEN TerminalSignal(e.raw)
          ELSE TerminalSignal([type |-> "tuple", task |-> "t1", ev |-> e.raw])

\* C9: however a session ends, the caller receives its transcript, whose last
\* entry says why the session ended; no exception of a streaming call reaches
\* the caller.
C9_CallerGetsTranscript ==
    /\ pc # "raised"
    /\ pc = "done" => (events # << >> /\ DescribesEnd(events[Len(events)]))

\* C10: every frame the stream of a hop has yielded has exactly one entry in
\* the transcript as soon as it is consumed (requests-based drivers), unknown
\* frames included.
C10_EveryFrameRecorded ==
    variant \in HttpVariants =>
        \A h \in 1..Len(calls) :
            Len(SelectSeq(EntriesOfHop(h), LAMBDA e : ~IsErrorEntry(e))) = Len(FramesOfHop(h))

\* C11: the transcript lists its entries in the order in which their frames
\* were yielded, across all hops: positions in the transcript and positions of
\* the frames in the streams increase together, and every entry stands for a
\* frame of its own hop.
C11_TranscriptInArrivalOrder ==
    /\ \A i \in 1..Len(events) : \A j \in 1..Len(events) :
           i < j => /\ events[i].at < events[j].at
                    /\ events[i].hop <= events[j].hop
    /\ \A i \in 1..Len(events) :
           IF IsErrorEntry(events[i])
           THEN events[i].at = Len(yielded) + 1
           ELSE /\ events[i].at <= Len(yielded)
                /\ yielded[events[i].at].hop = events[i].hop

\* C11 witness: grapp_v6 has put the entries of a second hop behind the two
\* entries of the first
C11_Witness ==
    /\ variant = "grapp_v6"
    /\ Len(events) >= 3
    /\ events[1].hop = 1
    /\ events[2].hop = 1
    /\ events[3].hop = 2

\* C12 as stated: the only change ever made to the transcript is appending at
\* its end; an entry once appended keeps its place and all its fields.
C12_AppendOnly ==
    [][/\ Len(events') >= Len(events)
       /\ \A i \in 1..Len(events) : events'[i] = events[i]]_vars

\* an entry differs from its former self in nothing, or in the relayed flag
\* that went from false to true
SameButRelayed(e, f) == f = [e EXCEPT !.relayed = TRUE]

\* C12 amended: entries are never removed or moved, and no field of an entry
\* changes once it is appended, except that grapp_v3, when the hop that just
\* ended is relayed, sets the relayed flag of the hop's last Message entry,
\* once and from false to true; grapp_v4 / grapp_v6 set to_agent before the
\* entries enter the transcript.
C12_AppendOnlyButRelayedFlag ==
    [][/\ Len(events') >= Len(events)
       /\ \A i \in 1..Len(events) :
             \/ events'[i] = events[i]
             \/ /\ variant = "grapp_v3"
                /\ ~events[i].relayed
                /\ SameButRelayed(events[i], events'[i])
                /\ events[i].kind = "message"
                /\ events[i].hop = Len(calls)
                /\ ~\E k \in (i + 1)..Len(events) : events[k].kind = "message"
                /\ \A k \in 1..Len(events) : k # i => events'[k] = events[k]
                /\ next_message' # None]_vars

\* C12 witness: grapp_v3 has marked a Message relayed that is not the last
\* entry of the transcript
C12_Witness ==
    /\ variant = "grapp_v3"
    /\ Len(events) >= 2
    /\ events[1].relayed
    /\ events[1].kind = "message"
    /\ events[2].hop = 1

\* C13: in grapp_v3, when the session has ended, an entry is marked relayed if
\* and only if a further hop was performed after the entry's hop and the
\* inbound message of that hop carries the entry's text.
C13_RelayedIffNextHopUsesText ==
    (variant = "grapp_v3" /\ pc = "done") =>
        \A i \in 1..Len(events) :
            events[i].relayed <=>
                /\ events[i].kind = "message"
                /\ events[i].hop < Len(calls)
                /\ calls[events[i].hop + 1].message = Some(UserMessage(events[i].text))

\* the endpoint the driver relayed the text of hop h to
DestinationOfHop(h) == IF h < Len(calls) THEN calls[h + 1].to ELSE current

\* C14: when the session has ended, every relayed entry (relayed = true in
\* grapp_v3; in grapp_v4 / grapp_v6 a Message entry after whose hop the driver
\* went on, relayed to its to_agent) is followed in the transcript by an entry
\* whose origin is the endpoint the text was relayed to.
C14_RelayedIsAnswered ==
    pc = "done" =>
        \A i \in 1..Len(events) :
            LET e == events[i]
                isRelayed == IF variant = "grapp_v3" THEN e.relayed
                             ELSE /\ variant \in SdkVariants
                                  /\ e.kind = "message"
                                  /\ e.hop < Len(calls)
                dest == IF variant = "grapp_v3" THEN DestinationOfHop(e.hop)
                        ELSE e.to_agent
            IN  isRelayed => \E j \in (i + 1)..Len(events) : events[j].origin = dest

\* C15: the driver stops consuming the stream of a hop by itself once the peer
\* has sent a ceiling of frames without closing the stream and without a final
\* or terminal status.  The drivers define no ceiling; the formula states the
\* claim for any ceiling up to MaxFrames, the frames the model lets a peer
\* send: a driver with such a ceiling is never found waiting on a stream that
\* has yielded that many frames, none of them final or terminal.
C15_DriverLeavesEndlessStream ==
    ~ /\ pc = "stream"
      /\ Len(FramesOfHop(Len(calls))) >= MaxFrames
      /\ \A i \in 1..Len(FramesOfHop(Len(calls))) :
            ~TerminalSignal(FramesOfHop(Len(calls))[i])

\* Scenario A has been played: hop bound 3, initiator A; the first stream
\* yielded one Message with text and without opt-out and closed, the second
\* yielded one StatusUpdate with final = true and closed
ScenarioA ==
    /\ variant \in HttpVariants
    /\ hop_limit = 3
    /\ initiator = "A"
    /\ raisedAt = 0
    /\ dropped = << >>
    /\ Len(calls) >= 2
    /\ (Len(calls) > 2 \/ pc \in {"loop", "done"})
    /\ Len(FramesOfHop(1)) = 1
    /\ IsMessage(FramesOfHop(1)[1])
    /\ HasText(FramesOfHop(1)[1])
    /\ ~OptsOut(MessageMeta(FramesOfHop(1)[1]))
    /\ Len(FramesOfHop(2)) = 1
    /\ parse_stream_result(FramesOfHop(2)[1])[1] = "statusUpdate"
    /\ IsFinal(parse_stream_result(FramesOfHop(2)[1])[2])

\* C16: after Scenario A the session has ended with exactly two hops, a call
\* to A and then a call to B; the transcript holds the Message entry of hop 1
\* and then the status entry of hop 2, and in grapp_v3 the Message entry is
\* marked relayed.
C16_ScenarioA ==
    ScenarioA =>
        /\ Len(calls) = 2
        /\ hops = 2
        /\ calls[1].to = "A"
        /\ calls[2].to = "B"
        /\ calls[2].message = Some(UserMessage(MessageText(FramesOfHop(1)[1])))
        /\ Exited
        /\ Len(events) = 2
        /\ events[1].hop = 1
        /\ events[1].kind = "message"
        /\ events[1].origin = "A"
        /\ events[2].hop = 2
        /\ events[2].kind = "status"
        /\ events[2].origin = "B"
        /\ ~events[2].relayed
        /\ variant = "grapp_v3" => events[1].relayed

\* C16 witness: grapp_v3 has returned from Scenario A
C16_Witness == ScenarioA /\ variant = "grapp_v3" /\ pc = "done"

\* the text of the inbound message of a call
InboundText(c) ==
    IF variant \in HttpVariants THEN extract_text_parts(c.message[1]) ELSE c.message[1]

\* C17: every inbound message sent after the first hop has non-empty text,
\* which is the text of a Message of the hop before: a hop whose Messages all
\* have empty text is never followed by another, whatever their metadata.
C17_EmptyTextNeverRelayed ==
    \A h \in 2..Len(calls) :
        /\ calls[h].message # None
        /\ InboundText(calls[h]) # << >>
        /\ \E i \in 1..Len(MessagesOfHop(h - 1)) :
              /\ HasText(MessagesOfHop(h - 1)[i])
              /\ MessageText(MessagesOfHop(h - 1)[i]) = InboundText(calls[h])

\* C17 witness: a session of more than one allowed hop ended after a first
\* hop whose only Message has empty text, allows relaying and names a target
C17_Witness ==
    /\ variant \in {"grapp_v3", "grapp_v6"}
    /\ pc = "done"
    /\ hop_limit > 1
    /\ Len(calls) = 1
    /\ raisedAt = 0
    /\ Len(MessagesOfHop(1)) = 1
    /\ ~HasText(MessagesOfHop(1)[1])
    /\ "relay" \in DOMAIN MessageMeta(MessagesOfHop(1)[1])
    /\ ~OptsOut(MessageMeta(MessagesOfHop(1)[1]))

\* the texts of the text parts of a Message payload, the other parts left out
RECURSIVE TextsOnly(_)
TextsOnly(parts) ==
    IF parts = << >> THEN << >>
    ELSE LET p == Head(parts)
         IN  (IF p.kind = "text" /\ "text" \in DOMAIN p /\ p.text # << >>
              THEN <<p.text>> ELSE << >>) \o TextsOnly(Tail(parts))

\* the concatenation, in array order, of the textual parts of a Message frame
TextualContent(f) == Strip(JoinLines(TextsOnly(parse_stream_result(f)[2].parts)))

\* C18: in the requests-based drivers the inbound message of every hop after
\* the first carries the textual parts of a Message of the hop before, joined
\* in array order, and none of the placeholders [file] and [data]; a Message
\* without textual content is not relayed.
C18_RelayTextIsTextualPartsOnly ==
    variant \in HttpVariants =>
        \A h \in 2..Len(calls) :
            /\ \A k \in 1..Len(InboundText(calls[h])) :
                  InboundText(calls[h])[k] \notin {"[file]", "[data]"}
            /\ \E i \in 1..Len(MessagesOfHop(h - 1)) :
                  /\ TextualContent(MessagesOfHop(h - 1)[i]) # << >>
                  /\ InboundText(calls[h]) = TextualContent(MessagesOfHop(h - 1)[i])

\* C19: in the requests-based drivers an SSE event whose data is no JSON ends
\* the session as a transport error does: the hop is aborted at that event, an
\* error entry of that hop is the last entry of the transcript, and no further
\* call is made.
C19_MalformedFrameIsTransportError ==
    (variant \in HttpVariants /\ dropped # << >>) =>
        /\ Len(dropped) = 1
        /\ pc # "stream"
        /\ Len(calls) = dropped[1]
        /\ events # << >>
        /\ IsErrorEntry(events[Len(events)])
        /\ events[Len(events)].hop = dropped[1]
        /\ pc = "loop" => next_message = None

\* the strings that switch relaying off
OffStrings(v) ==
    IF v = "grapp_v6"
    THEN {<< >>, <<"0">>, <<"false">>, <<"no">>, <<"off">>, <<"never">>}
    ELSE {<<"never">>, <<"no">>, <<"false">>}

\* the metadata carries a recognized off value: the relay flag is the boolean
\* false or one of the off strings, or (grapp_v2, grapp_v3) the doNotRelay
\* boolean is true
RecognizedOff(v, meta) ==
    LET r == MetaGet(meta, "relay")
        d == MetaGet(meta, "doNotRelay")
    IN  \/ r.t = "bool" /\ ~r.b
        \/ r.t = "str" /\ Lower(IF v = "grapp_v6" THEN Strip(r.s) ELSE r.s) \in OffStrings(v)
        \/ v # "grapp_v6" /\ d.t = "bool" /\ d.b

\* C20: in grapp_v2, grapp_v3 and grapp_v6 a hop whose Messages have text and
\* carry no recognized off value is relayed, whatever else their metadata
\* holds: metadata that is no mapping, flags of another type, unknown strings.
C20_MalformedMetadataIsPermissive ==
    (variant \in {"grapp_v2", "grapp_v3", "grapp_v6"} /\ HopDecided(Len(calls)))
    => LET msgs == MessagesOfHop(Len(calls))
       IN  (/\ msgs # << >>
            /\ \A i \in 1..Len(msgs) :
                  HasText(msgs[i]) /\ ~RecognizedOff(variant, MessageMeta(msgs[i])))
           => /\ pc = "loop"
              /\ next_message # None

\* the prompt as the inbound message of the first call
PromptMessage ==
    Some(IF variant \in HttpVariants THEN UserMessage(<<"prompt">>) ELSE <<"prompt">>)

\* C21: at every moment the active speaker is one of the two configured
\* endpoints and the peer is the other one; every call goes to one endpoint
\* with the other as peer; before the first call the active speaker is the
\* initiator and the message to send is the prompt, which the first call
\* carries to the initiator.
C21_OneSpeakerOnePeer ==
    /\ current \in Labels(variant)
    /\ other \in Labels(variant)
    /\ other # current
    /\ Cardinality(Labels(variant)) = 2
    /\ \A h \in 1..Len(calls) :
          /\ calls[h].to \in Labels(variant)
          /\ calls[h].peer \in Labels(variant)
          /\ calls[h].peer # calls[h].to
    /\ calls = << >> => (current = initiator /\ next_message = PromptMessage)
    /\ calls # << >> => (calls[1].to = initiator /\ calls[1].message = PromptMessage)

\* C21 witness: grapp_v6 has sent the second call to the endpoint that spoke
\* in the first, its peer being the other endpoint
C21_Witness ==
    /\ variant = "grapp_v6"
    /\ Len(calls) >= 2
    /\ calls[2].to = calls[1].to
    /\ calls[2].peer = calls[1].peer
    /\ current # other

\* no Message of the session names an explicit target
NoTargetNamed ==
    \A k \in 1..Len(yielded) :
        IsMessage(yielded[k].frame) => ~NamesTarget(yielded[k].frame)

\* C22: when no Message names an explicit target, the calls alternate between
\* the two endpoints, starting with the initiator, and each call after the
\* first carries the text relayed from the hop before (the last text a
\* Message of that hop had).
C22_StrictAlternation ==
    NoTargetNamed =>
        /\ calls # << >> => calls[1].to = initiator
        /\ \A h \in 2..Len(calls) :
              LET texts == SelectSeq(MessagesOfHop(h - 1), HasText)
              IN  /\ calls[h].to = calls[h - 1].peer
                  /\ calls[h].peer = calls[h - 1].to
                  /\ texts # << >>
                  /\ calls[h].message # None
                  /\ InboundText(calls[h]) = MessageText(texts[Len(texts)])

\* C22 witness: grapp_v4 has called the initiator, its peer and the initiator
\* again
C22_Witness ==
    /\ variant = "grapp_v4"
    /\ NoTargetNamed
    /\ Len(calls) >= 3
    /\ calls[3].to = calls[1].to
    /\ calls[2].to # calls[1].to

\* C23: when a hop is relayed and the last explicit target its Messages name
\* is the endpoint that has just spoken, the next call goes to the peer.
C23_SelfTargetFallsBackToPeer ==
    \A h \in 1..Len(calls) :
        LET named == SelectSeq(MessagesOfHop(h), NamesTarget)
        IN  (/\ h < Len(calls)
             /\ named # << >>
             /\ NamedTarget(named[Len(named)])[1] = calls[h].to)
            => calls[h + 1].to = calls[h].peer

\* C25: no field of an endpoint's configuration is modified by the driver
\* between the start and the end of a conversation.
C25_ConfigUnmodified == conf = InitConf(variant)

\* the result of a frame ({} when missing or empty) and the direct shapes
ResultOf(frame) == IF "result" \in DOMAIN frame THEN frame.result ELSE << >>
MessageShape(r) == "role" \in DOMAIN r /\ "parts" \in DOMAIN r
TaskShape(r) == KindIs(r, "task") /\ "status" \in DOMAIN r /\ "id" \in DOMAIN r
StatusShape(r) ==
    KindIs(r, "task-status-update") /\ "status" \in DOMAIN r /\ "taskId" \in DOMAIN r
ArtifactShape(r) == KindIs(r, "task-artifact-update") /\ "taskId" \in DOMAIN r
DirectShape(r) == MessageShape(r) \/ TaskShape(r) \/ StatusShape(r) \/ ArtifactShape(r)

\* the variant the direct rules give for an object
DirectVariant(r) ==
    IF MessageShape(r) THEN "message"
    ELSE IF TaskShape(r) THEN "task"
    ELSE IF StatusShape(r) THEN "statusUpdate"
    ELSE IF ArtifactShape(r) THEN "artifactUpdate"
    ELSE "unknown"

\* the first wrapped key of a result, 0 when it has none
FirstWrapped(r) ==
    IF \E i \in 1..4 : WrappedKeys[i] \in DOMAIN r
    THEN CHOOSE i \in 1..4 : /\ WrappedKeys[i] \in DOMAIN r
                             /\ \A j \in 1..(i - 1) : WrappedKeys[j] \notin DOMAIN r
    ELSE 0

\* C28: parse_stream_result checks the shapes in a fixed order and returns the
\* first that matches: message (role and parts), task, status update, artifact
\* update, then the wrapped keys message, task, statusUpdate, artifactUpdate,
\* else unknown; role and parts make a message whatever the kind or the wrapped
\* keys are, and a missing or empty result is unknown.
C28_FirstMatchingShapeWins ==
    cls.pc = "frame" =>
        \A i \in 1..Len(cls.runs) :
            LET r == ResultOf(cls.frame)
                typ == cls.runs[i].typ
            IN  /\ DOMAIN r = {} => typ = "unknown"
                /\ MessageShape(r) => typ = "message"
                /\ ~MessageShape(r) /\ TaskShape(r) => typ = "task"
                /\ ~MessageShape(r) /\ ~TaskShape(r) /\ StatusShape(r)
                       => typ = "statusUpdate"
                /\ ~MessageShape(r) /\ ~TaskShape(r) /\ ~StatusShape(r) /\ ArtifactShape(r)
                       => typ = "artifactUpdate"
                /\ ~DirectShape(r) /\ FirstWrapped(r) # 0
                       => typ = WrappedKeys[FirstWrapped(r)]
                /\ ~DirectShape(r) /\ FirstWrapped(r) = 0 => typ = "unknown"

\* C28 witness: a result with role, parts, the kind of a task and two wrapped
\* keys has been classified as a message
C28_Witness ==
    /\ cls.pc = "frame"
    /\ cls.runs # << >>
    /\ LET r == ResultOf(cls.frame)
       IN  /\ MessageShape(r) /\ TaskShape(r)
           /\ {"task", "statusUpdate"} \subseteq DOMAIN r
    /\ cls.runs[1].typ = "message"

\* C29: a result wrapped under a named key is unwrapped and classified again by
\* the same shape rules, once: the variant returned equals the variant the
\* direct rules give for the inner object, unknown when it matches no shape.
C29_WrappedIsClassifiedAgain ==
    cls.pc = "frame" =>
        \A i \in 1..Len(cls.runs) :
            LET r == ResultOf(cls.frame)
            IN  (~DirectShape(r) /\ FirstWrapped(r) # 0)
                    => cls.runs[i].typ = DirectVariant(r[WrappedKeys[FirstWrapped(r)]])

\* the entries the loop body has recorded for frames it classified
Classified == {i \in 1..Len(events) : ~IsErrorEntry(events[i])}

\* the kind of the entry the loop body records for a variant
RecordedKind(typ) ==
    CASE typ = "message" -> "message"
      [] typ = "artifactUpdate" -> "artifact"
      [] OTHER -> "status"

\* what the driver has made of the frames it classified: a frame has at most
\* one entry, under the one variant parse_stream_result gives it (none when
\* the variant is unknown); the raw frame kept in the entry is the frame as
\* the stream yielded it; two entries made of equal frames, whatever the hop,
\* the sender and the locals of the driver were, have the same kind, role
\* and text
ClassifiedAlike ==
    variant \in HttpVariants =>
        /\ \A i \in Classified :
               /\ events[i].at \in 1..Len(yielded)
               /\ events[i].raw = yielded[events[i].at].frame
               /\ ClassifyOnce(events[i].raw).typ
                      \in {"message", "task", "statusUpdate", "artifactUpdate"}
               /\ events[i].kind = RecordedKind(ClassifyOnce(events[i].raw).typ)
               /\ \A j \in Classified :
                      /\ events[j].at = events[i].at => j = i
                      /\ events[j].raw = events[i].raw =>
                             /\ events[j].kind = events[i].kind
                             /\ events[j].role = events[i].role
                             /\ events[j].text = events[i].text
        /\ \A k \in 1..Len(yielded) :
               ClassifyOnce(yielded[k].frame).typ = "unknown" =>
                   \A i \in Classified : events[i].at # k

C27_ViewerShowsSelectedSession ==
    (viewer.pc = "view" /\ viewer.last \in {"pick", "chat_select"}) =>
        viewer.shown = viewer.selected

\* C26: the streaming connection opened for a hop or for a delegated call is
\* released on every exit path (normal end, error while opening or iterating,
\* early stop by the consumer): once the call is left, and no release it
\* awaited on its way out was itself interrupted, nothing it opened is open.
C26_ReleasedOnEveryExit ==
    (dcall.pc \in {"returned", "raised", "stopped"} /\ dcall.release # "interrupted") =>
        dcall.open = {}

\* every entry of a transcript was built by the session that owns it, and the
\* entries are in the order of its hops and of the frames of its streams
OwnEntriesInOrder ==
    /\ \A i \in 1..Len(events) : events[i].session = 1
    /\ \A i \in 1..(Len(events) - 1) :
           /\ events[i].hop <= events[i + 1].hop
           /\ events[i].at <= events[i + 1].at
    /\ s2.pc # "idle" =>
           /\ \A i \in 1..Len(s2.events) : s2.events[i].session = 2
           /\ \A i \in 1..(Len(s2.events) - 1) : s2.events[i].at <= s2.events[i + 1].at

\* what a session is made of: transcript, hop counter, speaker, position
Session1 == <<events, hops, current, other, pc, next_message, loc>>
Session2 == s2

\* C24: sessions that run concurrently are independent: the transcript of each
\* holds only the entries of its own hops, in its own order, and no step of
\* one session, a transport error that ends it included, ends the other
\* session or changes its transcript, hop counter or active speaker.
C24_SessionsIndependent ==
    /\ OwnEntriesInOrder
    /\ [][/\ OwnEntriesInOrder'
          /\ (Session2' # Session2) => (Session1' = Session1)
          /\ (Session1' # Session1) => (Session2' = Session2)]_vars

\* C24 witness: the second session was ended by a transport error after the
\* first one had recorded an entry, and the first went on to its hop limit
\* without error
C24_Witness ==
    /\ variant = "grapp_v3"
    /\ s2.pc = "done" /\ s2.failed
    /\ s2.events # << >>
    /\ pc = "done" /\ raisedAt = 0
    /\ hops = hop_limit
    /\ Len(events) = 2

\* a frame the driver classifies as unknown: parse_stream_result says so, or
\* the item of the SDK stream is neither a Message nor a tuple
IsUnknown(f) ==
    IF variant \in HttpVariants THEN parse_stream_result(f)[1] = "unknown"
    ELSE f.type \notin {"Message", "tuple"}

\* C31: a frame classified as unknown changes nothing in the relay decision of
\* its hop (relay text, allowed flag, explicit target, terminal mark), does not
\* end the hop and does not abort the session: the driver goes on with the
\* next frame of the stream.
C31_UnknownFrameChangesNothing ==
    [][(Len(yielded') = Len(yielded) + 1 /\ IsUnknown(yielded'[Len(yielded')].frame))
          => /\ pc = "stream" /\ pc' = "stream"
             /\ UNCHANGED <<loc, events, hops, current, other, next_message, calls>>]_vars

\* C31 witness: in grapp_v3 an unknown frame came after a Message in hop 1, and
\* the text of the Message was relayed
C31_Witness ==
    /\ variant = "grapp_v3"
    /\ Len(yielded) >= 2
    /\ yielded[1].hop = 1 /\ IsMessage(yielded[1].frame)
    /\ yielded[2].hop = 1 /\ IsUnknown(yielded[2].frame)
    /\ Len(calls) >= 2
    /\ events[1].relayed

\* the relay value of the metadata is explicitly off: the boolean false, or one
\* of the strings _truthy reads as off
ExplicitlyOff(meta) ==
    /\ "relay" \in DOMAIN meta
    /\ \/ meta.relay.t = "bool" /\ ~meta.relay.b
       \/ meta.relay.t = "str" /\ Lower(Strip(meta.relay.s)) \in
              {<< >>, <<"0">>, <<"false">>, <<"no">>, <<"off">>, <<"never">>}

\* hop h is over and the driver forwards its reply / stops after it
ForwardedAfter(h) ==
    \/ h < Len(calls)
    \/ h = Len(calls) /\ pc = "loop" /\ hops < MAX_HOPS
StoppedAfter(h) == h = Len(calls) /\ pc = "done"

\* C35: in relay_by_default of grapp_v6 forwarding stops for a Message with
\* audience user only when its relay value is explicitly off; a Message with
\* no relay field is relayed by default, with audience user as with any other
\* audience: the decision to relay never depends on the audience.
C35_AudienceNeverDecides ==
    variant = "grapp_v6" =>
        \A h \in 1..Len(calls) :
            (h < MAX_HOPS /\ MessagesOfHop(h) # << >>
                /\ get_message_text(MessagesOfHop(h)[1]) # << >>)
            => LET meta == SdkMeta(MessagesOfHop(h)[1])
               IN  /\ StoppedAfter(h) => ExplicitlyOff(meta)
                   /\ "relay" \notin DOMAIN meta => ~StoppedAfter(h)
                   /\ ForwardedAfter(h) => ~ExplicitlyOff(meta)

\* C35 witness: a Message with audience user and no relay field was forwarded
C35_Witness ==
    /\ variant = "grapp_v6"
    /\ Len(calls) >= 2
    /\ MessagesOfHop(1) # << >>
    /\ LET meta == SdkMeta(MessagesOfHop(1)[1])
       IN  /\ "audience" \in DOMAIN meta /\ meta.audience = "user"
           /\ "relay" \notin DOMAIN meta
    /\ calls[2].message = Some(<<"hi">>)

\* the relay decision a hop of gradio_app, grapp_v2, grapp_v3 starts with
DecisionReset ==
    IF variant = "gradio_app" THEN loc.last_text_from_sender = None
    ELSE /\ loc.relay_text = None
         /\ loc.relay_allowed = RELAY_BY_DEFAULT
         /\ loc.explicit_target = None
         /\ ~loc.stream_reached_terminal

\* the last Message of hop h with text, << >> when it has none
LastTextMessage(h) ==
    LET hasText(f) == MessageText(f) # << >>
        ms == SelectSeq(MessagesOfHop(h), hasText)
    IN  IF ms = << >> THEN << >> ELSE <<ms[Len(ms)]>>

\* the last Message of hop h that names a target, << >> when none does
LastTargetMessage(h) ==
    LET names(f) == DelegateTo(MessageMeta(f)) # None
        ms == SelectSeq(MessagesOfHop(h), names)
    IN  IF ms = << >> THEN << >> ELSE <<ms[Len(ms)]>>

\* C37: the relay decision is per hop: relay text, allowed flag, explicit target
\* and terminal mark are reset when a hop starts, so an opt-out, a delegateTo
\* target or a text seen in hop k never influences whether, where or what hop
\* k+1 relays.
C37_DecisionIsPerHop ==
    variant \in HttpVariants =>
        /\ (pc = "stream" /\ FramesOfHop(Len(calls)) = << >>) => DecisionReset
        /\ \A h \in 2..Len(calls) :
               LET k == h - 1
               IN  /\ LastTextMessage(k) # << >>
                   /\ InboundText(calls[h]) = MessageText(LastTextMessage(k)[1])
                   /\ variant # "gradio_app" =>
                          /\ \A i \in 1..Len(MessagesOfHop(k)) :
                                 ~OptsOut(MessageMeta(MessagesOfHop(k)[i]))
                          /\ calls[h].to =
                                 IF LastTargetMessage(k) # << >>
                                 THEN DelegateTo(MessageMeta(LastTargetMessage(k)[1]))[1]
                                 ELSE calls[k].peer

\* C37 witness: in grapp_v3 hop 1 named the target A, hop 2 named none and
\* its text went to the peer of the speaker of hop 2
C37_Witness ==
    /\ variant = "grapp_v3"
    /\ Len(calls) >= 3
    /\ LastTargetMessage(1) # << >>
    /\ LastTargetMessage(2) = << >>
    /\ calls[2].to = calls[1].to
    /\ calls[3].to = calls[2].peer

\* the inbound message of a call has role user and a single text part (the SDK
\* drivers build it from the text with _build_text_message / Message(...))
UserTextMessage(c) ==
    /\ c.message # None
    /\ variant \in HttpVariants =>
           /\ c.message[1].role = "user"
           /\ Len(c.message[1].parts) = 1
           /\ c.message[1].parts[1].kind = "text"

\* the Message entries the transcript holds of hop k, recorded with its speaker
\* as origin
ObservedMessages(k) ==
    LET seen(e) == e.hop = k /\ e.kind = "message" /\ e.origin = calls[k].to
    IN  SelectSeq(events, seen)

\* the extracted text of the frame of an entry, before it is stripped
ExtractedText(raw) ==
    IF variant \in HttpVariants THEN extract_text_parts(parse_stream_result(raw)[2])
    ELSE get_message_text(raw)

\* C38 as stated: every inbound message has role user and a single text part,
\* and for every hop after the first its text equals the stripped extracted
\* text of a Message recorded during the hop before with that hop's speaker as
\* origin.
C38_RelayedTextIsStrippedObserved ==
    \A h \in 1..Len(calls) :
        /\ UserTextMessage(calls[h])
        /\ h > 1 =>
               \E i \in 1..Len(ObservedMessages(h - 1)) :
                   InboundText(calls[h]) = Strip(ExtractedText(ObservedMessages(h - 1)[i].raw))

\* C38 amended: the text of every hop after the first is the extracted text of
\* a Message recorded during the hop before with that hop's speaker as origin,
\* stripped in gradio_app, grapp_v2, grapp_v3 and as get_message_text returns
\* it in grapp_v4 and grapp_v6: nothing is relayed that was not observed, and
\* nothing from an older hop.
C38_RelayedTextIsObserved ==
    \A h \in 1..Len(calls) :
        /\ UserTextMessage(calls[h])
        /\ h > 1 =>
               \E i \in 1..Len(ObservedMessages(h - 1)) :
                   LET raw == ObservedMessages(h - 1)[i].raw
                   IN  InboundText(calls[h]) =
                          IF variant \in HttpVariants THEN Strip(ExtractedText(raw))
                          ELSE ExtractedText(raw)

\* C38 witness: grapp_v6 has relayed a text with the blank it came with
C38_Witness ==
    /\ variant = "grapp_v6"
    /\ Len(calls) >= 2
    /\ calls[2].message = Some(<<" ", "hi">>)
    /\ ObservedMessages(1) # << >>

\* what is left to do: frames the streams may still yield, calls the bound
\* still allows, and the position of the driver
Rank ==
    3 * (FrameBudget(peer, hop_limit) - (Len(yielded) + Len(dropped)))
        + 2 * (hop_limit - Len(calls))
        + (CASE pc = "stream" -> 2 [] pc = "loop" -> 1 [] OTHER -> 0)

\* the calls opened are within the bound, and a driver that has not returned
\* can take a step: at the head of its loop it enters the body or leaves, and
\* a stream that yields no more frames ends or raises
WithinBoundAndLive ==
    /\ Len(calls) <= hop_limit
    /\ FrameBudget(peer, hop_limit) >= Len(yielded) + Len(dropped)
    /\ pc = "loop" => ENABLED (OpenStream \/ Return)
    /\ pc = "stream" => ENABLED (StreamClose \/ StreamError)

\* C39: if every stream is finite, every session terminates: whatever the
\* peers send, the driver opens at most hop_limit (MAX_HOPS) streaming calls,
\* every step brings it closer to its exit, and it is never stuck before it.
C39_SessionTerminates ==
    /\ []WithinBoundAndLive
    /\ [][Len(calls') <= hop_limit /\ Rank' < Rank]_vars

\* C39 witness: in grapp_v3 the peer named itself as the target in every hop,
\* all calls went to it, and the driver left its loop at the hop limit
C39_Witness ==
    /\ variant = "grapp_v3"
    /\ hop_limit = MaxHopLimit
    /\ pc = "done"
    /\ Len(calls) = hop_limit
    /\ \A h \in 1..Len(calls) : calls[h].to = initiator
    /\ \A h \in 1..Len(calls) : LastTargetMessage(h) # << >>

\* a blank line: empty once the blanks around it are stripped
BlankAt(lines, i) == lines[i].field = ""

\* the group of lines a blank line at b terminates: the lines after the blank
\* line before it (or from the start of the response)
GroupOf(lines, b) ==
    LET before == {i \in 1..(b - 1) : BlankAt(lines, i)}
        first == IF before = {} THEN 1
                 ELSE (CHOOSE i \in before : \A j \in before : j <= i) + 1
    IN  SubSeq(lines, first, b - 1)

\* the joined payload of the data: lines of a group, blanks left out
Payload(group) ==
    LET wanted(l) == l.field = "data" /\ l.payload # ""
        ds == SelectSeq(group, wanted)
    IN  [i \in 1..Len(ds) |-> ds[i].payload]

HasDataLine(group) == \E i \in 1..Len(group) : group[i].field = "data"

\* the frames of the first n lines: one for each terminated group that has a
\* data: line and whose payload is a JSON document, in stream order
RECURSIVE FramesOfLines(_, _)
FramesOfLines(lines, n) ==
    IF n = 0 THEN << >>
    ELSE FramesOfLines(lines, n - 1)
            \o (IF /\ BlankAt(lines, n)
                    /\ HasDataLine(GroupOf(lines, n))
                    /\ Payload(GroupOf(lines, n)) \in {<<"doc">>, <<"{", "}">>}
                 THEN <<Payload(GroupOf(lines, n))>> ELSE << >>)

\* C36: sse_stream yields frames in stream order, exactly one for each group of
\* lines that a blank line terminates and that has at least one data: line
\* whose joined payload parses as JSON; other lines never contribute, no line
\* contributes to two frames, and lines still buffered when the stream closes
\* yield no frame.
C36_OneFramePerTerminatedGroup ==
    sse.pc # "idle" => sse.out = FramesOfLines(sse.lines, sse.pos)

\* C36 witness: a response of two groups: a document split over two data:
\* lines with an event: line, then half a document left in the buffer at the
\* close; one frame was yielded
C36_Witness ==
    /\ sse.pc = "closed"
    /\ Len(sse.lines) = 4
    /\ sse.lines[1] = RawLine("data", "{", FALSE)
    /\ sse.lines[2] = RawLine("data", "}", TRUE)
    /\ sse.lines[3] = RawLine("", "", TRUE)
    /\ sse.lines[4] = RawLine("data", "doc", FALSE)
    /\ sse.out = << <<"{", "}">> >>

\* C32: a reconnect that runs while a session is relaying does not disturb it:
\* the clients the session streams from are neither closed nor replaced under
\* it, and the session ends as it would have without the reconnect.
C32_ReconnectLeavesSessionAlone ==
    (reconn.pc # "idle" /\ pc \in {"loop", "stream"}) =>
        /\ \A k \in Labels(variant) : reconn.held[k] = "open"
        /\ reconn.agents = "held"

\* C33: every completed session stays available: after any interleaving of
\* on_send calls, overlapping ones included, the sessions state holds one
\* record with its events for each call that completed, and the ids of the
\* records are pairwise distinct.
C33_EveryCompletedSessionKept ==
    store.pc = "serving" =>
        /\ \A c \in store.completed :
               \E i \in 1..Len(store.sessions_state) :
                   /\ store.sessions_state[i].id = c
                   /\ store.sessions_state[i].events = c
        /\ \A i, j \in 1..Len(store.sessions_state) :
               store.sessions_state[i].id = store.sessions_state[j].id => i = j

\* the kinds of the entries of the Transcript, in order
TranscriptKinds ==
    [i \in 1..Len(claimsrun.transcript.events) |-> claimsrun.transcript.events[i].kind]

\* the entries of a delegated request that streamed the events evs
DelegatedKinds(agent, evs) ==
    <<"incoming_request", RoutingKind(agent), "delegate_start">>
        \o [i \in 1..Len(evs) |-> "stream_event"]
        \o <<"delegate_end", "adjudication_start", "final_decision">>

\* C34: every event of a request's Transcript carries the correlation_id of
\* the request; a delegated request records incoming_request, the routing
\* entry, delegate_start, one stream_event per event of the MR stream in
\* stream order, delegate_end, adjudication_start, final_decision; no
\* stream_event lies outside the delegate_start / delegate_end bracket; and
\* once the request has ended, every delegate_start is followed by a
\* delegate_end or by an error entry.
C34_DelegationIsBracketed ==
    claimsrun.pc # "idle" =>
        LET ev == claimsrun.transcript.events
            k == TranscriptKinds
        IN  /\ \A i \in 1..Len(ev) : ev[i].correlation_id = claimsrun.corr_id
            /\ (claimsrun.pc = "done" /\ \E i \in 1..Len(k) : k[i] = "delegate_start") =>
                   /\ k = DelegatedKinds(claimsrun.agent, claimsrun.streamed)
                   /\ \A i \in 1..Len(claimsrun.streamed) :
                          ev[3 + i].payload = claimsrun.streamed[i]
            /\ \A i \in 1..Len(k) :
                   k[i] = "stream_event" =>
                       \E j \in 1..(i - 1) :
                           /\ k[j] = "delegate_start"
                           /\ \A m \in j..i : k[m] # "delegate_end"
            /\ claimsrun.pc \in {"done", "raised"} =>
                   \A i \in 1..Len(k) :
                       k[i] = "delegate_start" =>
                           \E j \in (i + 1)..Len(k) : k[j] \in {"delegate_end", "error"}

====
